---- MODULE Spec2Model ----
(***************************************************************************)
(* Model of the member-export pipeline of telegram_user_state:             *)
(*   chat_utils.resolve_chat_entity                                        *)
(*   member_export._collect_bots_and_recent                                *)
(*   member_export._collect_activity_maps / _fetch_reactions_for_message   *)
(*   member_export.export_member_data                                      *)
(* The Telethon client is the environment: every awaited call either       *)
(* replies or raises, every stream yields, ends or raises.                 *)
(***************************************************************************)
EXTENDS Integers, Sequences, FiniteSets, TLC

\* ------------------------------------------------------------------ bounds
\* user ids of the chat are 1..MaxUser
MaxUser == 2
\* the bots-filtered stream yields at most MaxBots users
MaxBots == 1
\* the recent-filtered stream yields at most MaxRecent users
MaxRecent == 1
\* the unfiltered participant stream yields at most MaxParticipants users
MaxParticipants == 2
\* history_limit of a whole export run is drawn from 0..MaxLimit
MaxLimit == 2
\* history_limit of a stand-alone activity scan is drawn from 0..ScanLimit
ScanLimit == 5
\* a reaction page holds at most MaxReactions entries
MaxReactions == 1
\* largest history_limit of a stand-alone enumeration with fallback
FallbackLimit == 3
\* a numeric string holds up to MaxTailDigits digits after its lead
MaxTailDigits == 10
\* a link holds up to MaxSegments path segments
MaxSegments == 3
\* timer jobs the App schedules, and preview resolutions it starts
MaxJobs == 4
MaxResolutions == 2
\* export runs started from the Start button
MaxRuns == 2
\* users export_task can meet, and the largest limit it is called with
MaxTaskUsers == 3
MaxTaskLimit == 3
\* export.py 89, 105: iter_messages(entity, limit=min(limit, 5000))
FallbackCap == 5000
\* timestamp of the newest message of the chat history
NewestDate == 9

\* ------------------------------------------------------- program constants
\* member_export.py:142  progress every 250 scanned messages
ScanProgressEvery == 250
\* member_export.py:259  progress every 200 collected participants
ParticipantProgressEvery == 200

\* ------------------------------------------------------------- value sets
Users == 1..MaxUser
\* Python None for an id (message without sender, reaction of a non-user peer)
NoneId == 0
Emojis == {"a"}

\* Optional[str]: <<>> is None, <<s>> is the string s
None == <<>>
Some(s) == <<s>>
\* Python truthiness of an Optional[str]
Truthy(opt) == opt # None /\ opt[1] # ""

\* exceptions the Telethon client can raise from a request or a stream;
\* ChatAdminRequiredError is a subclass of RPCError, ConnectionError is not
ClientErrors == {"ChatAdminRequiredError", "RPCError", "ConnectionError"}
\* exceptions of the invite-check request
InviteErrors == {"UserAlreadyParticipantError", "RPCError", "ConnectionError"}
\* isinstance(e, (ChatAdminRequiredError, RPCError))
IsRPCError(e) == e \in {"ChatAdminRequiredError", "RPCError", "UserAlreadyParticipantError"}

\* reply shapes of CheckChatInviteRequest
InviteReplies == {"ChatInviteAlready", "ChatInvite", "ChatInvitePeek"}

\* ------------------------------------------------------------ str values
\* a Python str is the sequence of its characters; an int is kept as its
\* decimal numeral (Python ints are unbounded), tagged by its type
Digits == {"0", "1", "2", "3", "4", "5", "6", "7", "8", "9"}
Whitespace == {" "}

\* str.lower() on the letters used here
LowerOf(c) ==
  CASE c = "C" -> "c" [] c = "E" -> "e" [] c = "H" -> "h" [] c = "M" -> "m"
    [] c = "P" -> "p" [] c = "S" -> "s" [] c = "T" -> "t" [] OTHER -> c
Lower(str) == [ i \in 1..Len(str) |-> LowerOf(str[i]) ]

\* str.startswith(prefix)
StartsWith(str, prefix) ==
  Len(prefix) <= Len(str) /\ SubSeq(str, 1, Len(prefix)) = prefix

\* str.lstrip(chars), str.rstrip(chars), str.strip(chars)
RECURSIVE LStrip(_, _)
LStrip(str, chars) ==
  IF str # << >> /\ Head(str) \in chars THEN LStrip(Tail(str), chars) ELSE str
RECURSIVE RStrip(_, _)
RStrip(str, chars) ==
  IF str # << >> /\ str[Len(str)] \in chars
    THEN RStrip(SubSeq(str, 1, Len(str) - 1), chars) ELSE str
Strip(str, chars) == RStrip(LStrip(str, chars), chars)

\* the least index i >= from with str[i] in chars, Len(str) + 1 when none
RECURSIVE Find(_, _, _)
Find(str, chars, from) ==
  IF from > Len(str) \/ str[from] \in chars THEN from ELSE Find(str, chars, from + 1)

\* str.split(sep) for a one-character sep
RECURSIVE Split(_, _)
Split(str, sep) ==
  LET i == Find(str, {sep}, 1)
  IN IF i > Len(str) THEN << str >>
     ELSE << SubSeq(str, 1, i - 1) >> \o Split(SubSeq(str, i + 1, Len(str)), sep)

\* re.sub(r"[^0-9-]", "", str)
RECURSIVE KeepNumeric(_)
KeepNumeric(str) ==
  IF str = << >> THEN << >>
  ELSE (IF Head(str) \in Digits \cup {"-"} THEN << Head(str) >> ELSE << >>)
         \o KeepNumeric(Tail(str))

MatchesChannelId_AnyLength(str) ==
  LET body == IF str # << >> /\ Head(str) = "-" THEN Tail(str) ELSE str
  IN /\ Len(body) >= 3
     /\ SubSeq(body, 1, 3) = << "1", "0", "0" >>
     /\ \A i \in 4..Len(body) : body[i] \in Digits

\* re.fullmatch(r"-?100\d{5,}", str)
MatchesChannelId(str) ==
  LET body == IF str # << >> /\ Head(str) = "-" THEN Tail(str) ELSE str
  IN /\ Len(body) >= 8
     /\ SubSeq(body, 1, 3) = << "1", "0", "0" >>
     /\ \A i \in 4..Len(body) : body[i] \in Digits

\* int(str) for a str of digits and '-': it succeeds on an optional sign
\* followed by digits, and gives the numeral without leading zeros
IntParses(str) ==
  LET body == IF str # << >> /\ Head(str) = "-" THEN Tail(str) ELSE str
  IN body # << >> /\ \A i \in 1..Len(body) : body[i] \in Digits
Numeral(str) ==
  LET neg == str # << >> /\ Head(str) = "-"
      body == IF neg THEN Tail(str) ELSE str
      digits == LStrip(body, {"0"})
  IN IF digits = << >> THEN << "0" >>
     ELSE IF neg THEN << "-" >> \o digits ELSE digits
IntValue(numeral) == [type |-> "int", value |-> numeral]
StrValue(str) == [type |-> "str", value |-> str]

\* try: target = int(text) / except Exception: target = text
IntOrStr(text) == IF IntParses(text) THEN IntValue(Numeral(text)) ELSE StrValue(text)

\* urllib.parse.urlparse(url) of a url that starts with http:// or https://
\* (any case) and holds no ';', '[' or ']': netloc runs to the first of
\* '/', '?', '#', path to the first of '?', '#'
urlparse(url) ==
  LET start == Find(url, {"/"}, 1) + 2
      stop == Find(url, {"/", "?", "#"}, start)
      cut == Find(url, {"?", "#"}, stop)
  IN [ netloc |-> SubSeq(url, start, stop - 1),
       path |-> SubSeq(url, stop, cut - 1) ]

\* chat_utils.NormalizedChat instances handed to the export (the UI passes the
\* descriptor it normalized), and one object that is neither str, int nor
\* NormalizedChat
ChatInputs ==
  { [kind |-> "NormalizedChat", raw |-> "somechat", target |-> "somechat", invite_hash |-> None],
    [kind |-> "NormalizedChat", raw |-> "+AbCdEf12", target |-> "+AbCdEf12", invite_hash |-> Some("AbCdEf12")],
    [kind |-> "NormalizedChat", raw |-> "+", target |-> "+", invite_hash |-> Some("")],
    [kind |-> "object", raw |-> "", target |-> "", invite_hash |-> None] }

NoChat == [kind |-> "None", raw |-> "", target |-> "", invite_hash |-> None]

\* the dataclass NormalizedChat(raw, target, invite_hash)
NormalizedChat(raw, target, invite_hash) ==
  [kind |-> "NormalizedChat", raw |-> raw, target |-> target, invite_hash |-> invite_hash]

\* lines 43-50
domain_aliases ==
  { << "t", ".", "m", "e" >>,
    << "t", "e", "l", "e", "g", "r", "a", "m", ".", "m", "e" >>,
    << "t", "e", "l", "e", "g", "r", "a", "m", ".", "d", "o", "g" >>,
    << "w", "w", "w", ".", "t", ".", "m", "e" >>,
    << "w", "w", "w", ".", "t", "e", "l", "e", "g", "r", "a", "m", ".", "m", "e" >>,
    << "w", "w", "w", ".", "t", "e", "l", "e", "g", "r", "a", "m", ".", "d", "o", "g" >> }

HttpPrefix == << "h", "t", "t", "p", ":", "/", "/" >>
HttpsPrefix == << "h", "t", "t", "p", "s", ":", "/", "/" >>
InviteSegments ==
  { << "j", "o", "i", "n", "c", "h", "a", "t" >>,
    << "a", "d", "d", "s", "t", "i", "c", "k", "e", "r", "s" >> }

_from_invite_TokenAsTarget(raw, hash_value) ==
  NormalizedChat(raw, StrValue(hash_value), Some(hash_value))

\* lines 55-56
_from_invite(raw, hash_value) == NormalizedChat(raw, StrValue(raw), Some(hash_value))

ChannelTarget_AlwaysPrefixed(numeric) ==
  IntOrStr(<< "-", "1", "0", "0" >> \o LStrip(numeric, {"-"}))

\* lines 68-82: the target of a /c/<numeric> link
ChannelTarget(numeric) ==
  IF StartsWith(numeric, << "-", "1", "0", "0" >>)
    THEN IntOrStr(numeric)
    ELSE IntOrStr(<< "-", "1", "0", "0" >> \o LStrip(numeric, {"-"}))

\* lines 90-94: the rules for what is no recognised link
NormalizePlain(raw) ==
  IF StartsWith(raw, << "+" >>)
    THEN _from_invite(raw, LStrip(raw, {"+"}))
    ELSE NormalizedChat(raw, StrValue(raw), None)

\* lines 58-88: the rules for a link; parts are the segments of its path
NormalizeLink(raw, parts) ==
  LET first == parts[1]
  IN IF first = << "c" >> /\ Len(parts) >= 2 /\ KeepNumeric(parts[2]) # << >>
       THEN NormalizedChat(raw, ChannelTarget(KeepNumeric(parts[2])), None)
     ELSE IF first \in InviteSegments /\ Len(parts) >= 2
       THEN _from_invite(raw, parts[2])
     ELSE IF StartsWith(first, << "+" >>)
       THEN _from_invite(raw, LStrip(first, {"+"}))
     ELSE NormalizedChat(raw, StrValue(first), None)

\* lines 30-94: normalize_chat_identifier on a str
NormalizeStr(chat) ==
  LET raw == Strip(chat, Whitespace)
      lower == Lower(raw)
      parsed == urlparse(raw)
      path == Strip(parsed.path, {"/"})
      parts == IF path = << >> THEN << >> ELSE Split(path, "/")
  IN IF raw = << >> THEN NoChat
     ELSE IF MatchesChannelId(raw) THEN NormalizedChat(raw, IntOrStr(raw), None)
     ELSE IF /\ StartsWith(lower, HttpPrefix) \/ StartsWith(lower, HttpsPrefix)
             /\ Lower(parsed.netloc) \in domain_aliases
             /\ parts # << >>
       THEN NormalizeLink(raw, parts)
     ELSE NormalizePlain(raw)

\* chat_utils.normalize_chat_identifier: a NormalizedChat is returned as it is,
\* an int ([kind |-> "int", value |-> numeral]) and a str ([kind |-> "str",
\* value |-> characters]) are normalized, anything else gives None
normalize_chat_identifier(chat) ==
  IF chat.kind = "NormalizedChat" THEN chat
  ELSE IF chat.kind = "int" THEN NormalizedChat(chat.value, IntValue(chat.value), None)
  ELSE IF chat.kind = "str" THEN NormalizeStr(chat.value)
  ELSE NoChat

\* entities the directory can return: with a title, or with nothing but an id
Entities == { [title |-> Some("Title"), username |-> None, first_name |-> None],
              [title |-> None, username |-> None, first_name |-> None] }
NoEntity == [title |-> None, username |-> None, first_name |-> Some("unset")]

\* ------------------------------------------------------------------ state
VARIABLES
  pc,              \* position of the run
  mode,            \* argument mode
  history_limit,   \* argument history_limit
  chat_username,   \* argument chat_username
  hasProgress,     \* a progress_callback was given
  tracing,         \* the history of scanned senders is recorded (ghost)
  tmp_session,     \* the cloned session file exists
  client,          \* "none" | "created" | "connected" | "disconnected"
  normalized_chat, \* local normalized_chat
  entity,          \* local entity
  chat_title,      \* local chat_title
  bot_count,
  recent_ids,
  participants,    \* list of users (ids) in stream order
  seen_ids,        \* fallback: sender ids already looked up
  fb_scanned,      \* fallback: messages consumed from the stream
  participant_ids,
  scanned,
  message,         \* the message whose reactions are being fetched
  last_post,
  last_reaction,
  rows,
  history,         \* ghost: senders of the messages scanned so far, newest first
  calls,           \* ghost: requests issued by resolve_chat_entity, in order
  event,           \* ghost: what the client answered in the last step
  log,             \* progress notifications sent so far (kinds)
  csv_rows,        \* rows written to the output file
  csv_written,     \* the output file was opened for writing
  summary,         \* the returned ExportSummary
  outcome,         \* "running" | "returned" | name of the raised exception
  nz_pc,           \* position of a stand-alone call of normalize_chat_identifier
  nz_chat,         \* its argument
  nz_ref,          \* its result
  nz_again,        \* the result of normalizing the result (or its raw) again
  chat_var,        \* App.chat_var: the text of the chat field
  api_id_var,      \* App.api_id_var: the text of the API id field
  output_var,      \* App.output_var: where the output path comes from
  output_user_modified,
  chat_name_var,   \* App.chat_name_var: the displayed chat name
  last_resolved_chat,
  chat_resolve_job, \* id of the timer job the App remembers, 0 for None
  after_jobs,      \* Tk: ids of the pending timer jobs of on_resolve_chat
  job_count,       \* Tk: timer jobs created so far
  workers,         \* preview threads that have not finished
  started,         \* ghost: preview resolutions started so far
  applied,         \* ghost: the resolution that wrote to the UI last
  fired,           \* ghost: the timer job that ran last, and what it did
  last_success,    \* ghost: reference of the resolution that succeeded last
  unlinked,        \* ghost: the preview thread that removed the session file last
  start_btn,       \* App.start_btn: "normal" | "disabled"
  exports,         \* export threads that have not finished
  runs,            \* ghost: export runs started so far
  task_pc,         \* position of a call of export.export_task
  task_mode,       \* its argument mode
  task_limit,      \* its argument limit
  bots,            \* local bots
  total,           \* local total
  task_seen,       \* local seen of the fallback
  msgs,            \* ghost: messages the fallback has scanned
  fallback_used,   \* local fallback_used, << >> while unbound
  task_rows,       \* rows of the table after the header
  yielded,         \* ghost: users the participant stream has yielded
  task_result      \* the returned dict, or the raised exception

argVars == << mode, history_limit, chat_username, hasProgress, tracing >>
normVars == << nz_pc, nz_chat, nz_ref, nz_again >>
sessVars == << tmp_session, client >>
resolveVars == << normalized_chat, entity, chat_title >>
enumVars == << bot_count, recent_ids, participants, seen_ids, fb_scanned, participant_ids >>
scanVars == << scanned, message, last_post, last_reaction, history >>
outVars == << csv_rows, csv_written, summary >>

exportVars == << pc, argVars, sessVars, resolveVars, enumVars, scanVars, rows,
                 calls, event, log, outVars, outcome >>

startVars == << start_btn, exports, runs >>
uiVars == << chat_var, api_id_var, output_var, output_user_modified, chat_name_var,
             last_resolved_chat, chat_resolve_job, after_jobs, job_count, workers,
             started, applied, fired, last_success, unlinked, startVars >>

taskVars == << task_pc, task_mode, task_limit, bots, total, task_seen, msgs,
               fallback_used, task_rows, yielded, task_result >>

vars == << exportVars, normVars, uiVars, taskVars >>

\* ghost: in the last step the client answered the call at `site` with `what`
\* (the exception it raised, or the shape of its reply) after the stream had
\* yielded n items; recorded when tracing
NoEvent == [site |-> "none", what |-> "none", yielded |-> 0]
Note(site, what, n) ==
  event' = IF tracing THEN [site |-> site, what |-> what, yielded |-> n] ELSE NoEvent
Quiet == event' = NoEvent

\* progress(msg) when a callback was given
Progress(kind) == IF hasProgress THEN log \cup {kind} ELSE log

NoMessage == [sender |-> NoneId, date |-> 0]
NoSummary == [total_members |-> -1, bot_count |-> -1, recent_count |-> -1, chat_title |-> ""]
EmptyMap == [u \in {} |-> 0]

\* d[k] = v for a dict held as a function on its key set
Put(d, k, v) == [x \in DOMAIN d \cup {k} |-> IF x = k THEN v ELSE d[x]]

\* the locals of a frame of export_member_data that has not run yet
FreshFrame ==
  /\ normalized_chat = NoChat
  /\ entity = NoEntity
  /\ chat_title = ""
  /\ bot_count = 0
  /\ recent_ids = {}
  /\ participants = << >>
  /\ seen_ids = {}
  /\ fb_scanned = 0
  /\ participant_ids = {}
  /\ scanned = 0
  /\ message = NoMessage
  /\ last_post = EmptyMap
  /\ last_reaction = EmptyMap
  /\ rows = << >>
  /\ history = << >>

\* no App exists
NoName == [kind |-> "empty", of |-> << >>]
NoOutput == [kind |-> "default", of |-> << >>]
NoWriter == [id |-> 0, newest |-> 0]
NoJob == [job |-> 0, did |-> "nothing"]
NoUnlink == [by |-> 0, others |-> {}]
UiIdle ==
  /\ chat_var = << >>
  /\ api_id_var = << >>
  /\ output_var = NoOutput
  /\ output_user_modified = FALSE
  /\ chat_name_var = NoName
  /\ last_resolved_chat = NoChat
  /\ chat_resolve_job = 0
  /\ after_jobs = {}
  /\ job_count = 0
  /\ workers = {}
  /\ started = 0
  /\ applied = NoWriter
  /\ fired = NoJob
  /\ last_success = NoChat
  /\ unlinked = NoUnlink
  /\ start_btn = "normal"
  /\ exports = {}
  /\ runs = 0

\* no call of export_task is under way
NoResult == [kind |-> "none"]
TaskIdle ==
  /\ task_pc = "idle"
  /\ task_mode = "export"
  /\ task_limit = 0
  /\ bots = 0
  /\ total = 0
  /\ task_seen = {}
  /\ msgs = 0
  /\ fallback_used = << >>
  /\ task_rows = 0
  /\ yielded = {}
  /\ task_result = NoResult

\* no stand-alone call of normalize_chat_identifier is under way
NormIdle ==
  /\ nz_pc = "idle"
  /\ nz_chat = NoChat
  /\ nz_ref = NoChat
  /\ nz_again = NoChat

\* a call of export_member_data with any arguments
RunCall(progress, trace) ==
  /\ NormIdle
  /\ UiIdle
  /\ TaskIdle
  /\ pc = "start"
  /\ mode \in {"member", "admin", "other"}
  /\ history_limit \in 0..MaxLimit
  /\ chat_username \in ChatInputs
  /\ hasProgress \in progress
  /\ tracing = trace
  /\ tmp_session = FALSE
  /\ client = "none"
  /\ FreshFrame
  /\ calls = << >>
  /\ event = NoEvent
  /\ log = {}
  /\ csv_rows = << >>
  /\ csv_written = FALSE
  /\ summary = NoSummary
  /\ outcome = "running"

\* the runs the repository starts: both callers of export_member_data
\* (member_export.main, ui.py:595) pass a progress callback
Init == RunCall({TRUE}, FALSE)

\* an exception leaves export_member_data before the try block is entered
RaiseOutside(e) ==
  /\ pc' = "done"
  /\ outcome' = e

\* an exception propagates inside the try block of lines 239-343: control goes
\* to the finally clause, which reads client and tmp_session only; the other
\* locals of the frame are never read again and are dropped here
Raise(e) ==
  /\ pc' = "finally"
  /\ outcome' = e
  /\ normalized_chat' = NoChat
  /\ entity' = NoEntity
  /\ chat_title' = ""
  /\ bot_count' = 0
  /\ recent_ids' = {}
  /\ participants' = << >>
  /\ seen_ids' = {}
  /\ fb_scanned' = 0
  /\ participant_ids' = {}
  /\ scanned' = 0
  /\ message' = NoMessage
  /\ last_post' = EmptyMap
  /\ last_reaction' = EmptyMap
  /\ history' = << >>
  /\ UNCHANGED << argVars, normVars, uiVars, taskVars, sessVars, calls, log, csv_rows, summary >>

\* ------------------------------------------------- export_member_data, head
\* lines 227-236: mode check, _clone_session, normalize, TelegramClient(...)
BeginRun ==
  /\ pc = "start"
  /\ Quiet
  /\ IF mode \notin {"member", "admin"}
       THEN /\ RaiseOutside("ValueError")
            /\ UNCHANGED << tmp_session, normalized_chat, client >>
       ELSE \E cloned \in BOOLEAN :
              /\ tmp_session' = cloned
              /\ normalized_chat' = normalize_chat_identifier(chat_username)
              /\ IF normalized_chat' = NoChat
                   THEN /\ RaiseOutside("ValueError")
                        /\ UNCHANGED client
                   ELSE /\ client' = "created"
                        /\ pc' = "client_start"
                        /\ UNCHANGED outcome
  /\ UNCHANGED << argVars, normVars, uiVars, taskVars, entity, chat_title, enumVars, scanVars, rows, calls, log, outVars >>

\* line 237: await client.start(...) returns
ClientStartOk ==
  /\ pc = "client_start"
  /\ Quiet
  /\ client' = "connected"
  /\ pc' = "resolve"
  /\ UNCHANGED << argVars, normVars, uiVars, taskVars, tmp_session, resolveVars, enumVars, scanVars, rows,
                  calls, log, outVars, outcome >>

\* line 237: await client.start(...) raises, after connecting (bad code or
\* password, RPC error) or before (no connection); line 237 is not inside the
\* try block
ClientStartFail ==
  /\ pc = "client_start"
  /\ \E e \in {"PhoneCodeInvalidError", "RPCError", "ConnectionError"} :
       /\ client' = IF e = "ConnectionError" THEN "created" ELSE "connected"
       /\ Note("client.start", e, 0)
       /\ RaiseOutside(e)
  /\ UNCHANGED << argVars, normVars, uiVars, taskVars, tmp_session, resolveVars, enumVars, scanVars, rows,
                  calls, log, outVars >>

\* ----------------------------------------- chat_utils.resolve_chat_entity
\* chat_utils.py:1-12 import CheckChatInviteRequest, ChatInviteAlready and
\* ChatInvite only: the name UserAlreadyParticipantError of the except clause
\* of line 102 is bound nowhere in the module
UserAlreadyParticipantErrorBound == FALSE

\* member_export.py:241-246
ChatTitle(ent, chat) ==
  IF Truthy(ent.title) THEN ent.title[1]
  ELSE IF Truthy(ent.username) THEN ent.username[1]
  ELSE IF Truthy(ent.first_name) THEN ent.first_name[1]
  ELSE chat.raw

Request(req, arg) == [req |-> req, arg |-> arg]

\* line 98: the branch resolve_chat_entity takes
TakesInvitePath(chat) == Truthy(chat.invite_hash)

\* lines 98-101 and 109: the first request of resolve_chat_entity
ResolveBegin ==
  /\ pc = "resolve"
  /\ Quiet
  /\ IF TakesInvitePath(normalized_chat)
       THEN /\ calls' = Append(calls, Request("CheckChatInviteRequest", normalized_chat.invite_hash[1]))
            /\ pc' = "invite1"
       ELSE /\ calls' = Append(calls, Request("get_entity", normalized_chat.target))
            /\ pc' = "lookup"
  /\ UNCHANGED << argVars, normVars, uiVars, taskVars, sessVars, resolveVars, enumVars, scanVars, rows,
                  log, outVars, outcome >>

\* lines 104-108: what resolve_chat_entity does with an invite-check reply:
\* the entity lookup it issues, or "ValueError"
OnInviteReply_Joinable(invite) ==
  IF invite \in {"ChatInviteAlready", "ChatInvite"} THEN "get_entity" ELSE "ValueError"

OnInviteReply(invite) ==
  IF invite = "ChatInviteAlready" THEN "get_entity" ELSE "ValueError"

\* lines 104-108: the invite check (first or repeated) replies
InviteReply ==
  /\ pc \in {"invite1", "invite2"}
  /\ \E invite \in InviteReplies :
       /\ Note(pc, invite, 0)
       /\ IF OnInviteReply(invite) = "get_entity"
         THEN /\ calls' = Append(calls, Request("get_entity", "invite.chat"))
              /\ pc' = "lookup"
              /\ UNCHANGED << argVars, normVars, uiVars, taskVars, sessVars, resolveVars, enumVars, scanVars, rows,
                              log, outVars, outcome >>
         ELSE /\ Raise("ValueError")
              /\ UNCHANGED << rows, csv_written >>

\* lines 100-103: what the try statement does when its body raises e: "retry"
\* (run the handler), or the exception that leaves the statement. Python
\* evaluates the except clause's expression first; an unbound name raises
\* NameError whatever e is
OnInviteError(e) ==
  IF ~UserAlreadyParticipantErrorBound THEN "NameError"
  ELSE IF e = "UserAlreadyParticipantError" THEN "retry"
  ELSE e

\* lines 100-103: the invite check raises; the repeated check of line 103 is
\* outside any handler
InviteError ==
  /\ pc \in {"invite1", "invite2"}
  /\ \E e \in InviteErrors :
       /\ Note(pc, e, 0)
       /\ IF pc = "invite1" /\ OnInviteError(e) = "retry"
         THEN /\ calls' = Append(calls, Request("CheckChatInviteRequest", normalized_chat.invite_hash[1]))
              /\ pc' = "invite2"
              /\ UNCHANGED << argVars, normVars, uiVars, taskVars, sessVars, resolveVars, enumVars, scanVars, rows,
                              log, outVars, outcome >>
         ELSE /\ Raise(IF pc = "invite1" THEN OnInviteError(e) ELSE e)
              /\ UNCHANGED << rows, csv_written >>

\* lines 105/109 return the entity; member_export.py:240-251 take the title
LookupReply ==
  /\ pc = "lookup"
  /\ Quiet
  /\ \E ent \in Entities :
       /\ entity' = ent
       /\ chat_title' = ChatTitle(ent, normalized_chat)
  /\ log' = log \cup Progress("Resolved chat title") \cup Progress("Collecting participants...")
  /\ pc' = "bots"
  /\ UNCHANGED << argVars, normVars, uiVars, taskVars, sessVars, normalized_chat, enumVars, scanVars, rows,
                  calls, outVars, outcome >>

\* lines 105/109: client.get_entity raises (ValueError: nothing found)
LookupError ==
  /\ pc = "lookup"
  /\ \E e \in ClientErrors \cup {"ValueError"} : Raise(e) /\ Note("lookup", e, 0)
  /\ UNCHANGED << rows, csv_written >>

\* ------------------------- member_export._collect_bots_and_recent (87-116)
\* line 98 / 109 / 173: the except clauses catch RPCError and its subclasses
Caught_Nothing(e) == FALSE

Caught_PermissionOnly(e) == e = "ChatAdminRequiredError"

Caught(e) == IsRPCError(e)

\* line 96-97: the bots-filtered stream yields a user
BotsYield ==
  /\ pc = "bots"
  /\ Quiet
  /\ bot_count < MaxBots
  /\ bot_count' = bot_count + 1
  /\ UNCHANGED << pc, argVars, normVars, uiVars, taskVars, sessVars, resolveVars, recent_ids, participants, seen_ids,
                  fb_scanned, participant_ids, scanVars, rows, calls, log, outVars, outcome >>

\* lines 102-104: the bots-filtered stream ends
BotsEnd ==
  /\ pc = "bots"
  /\ Quiet
  /\ log' = Progress("Bots counted")
  /\ pc' = "recent"
  /\ UNCHANGED << argVars, normVars, uiVars, taskVars, sessVars, resolveVars, enumVars, scanVars, rows,
                  calls, outVars, outcome >>

\* lines 98-101: the bot count after the bots-filtered stream raised
BotCountOnError_Keeps(count) == count

BotCountOnError(count) == 0

\* lines 98-101: the bots-filtered stream raises
BotsFail ==
  /\ pc = "bots"
  /\ \E e \in ClientErrors :
       /\ Note("bots", e, bot_count)
       /\ IF Caught(e)
         THEN /\ log' = Progress("Unable to enumerate bots")
              /\ bot_count' = BotCountOnError(bot_count)
              /\ pc' = "recent"
              /\ UNCHANGED << argVars, normVars, uiVars, taskVars, sessVars, resolveVars, recent_ids, participants,
                              seen_ids, fb_scanned, participant_ids, scanVars, rows,
                              calls, outVars, outcome >>
         ELSE /\ Raise(e)
              /\ UNCHANGED << rows, csv_written >>

\* lines 107-108: the recent-filtered stream yields a user
RecentYield ==
  /\ pc = "recent"
  /\ Quiet
  /\ Cardinality(recent_ids) < MaxRecent
  /\ \E u \in Users :
       /\ u \notin recent_ids
       /\ recent_ids' = recent_ids \cup {u}
  /\ UNCHANGED << pc, argVars, normVars, uiVars, taskVars, sessVars, resolveVars, bot_count, participants, seen_ids,
                  fb_scanned, participant_ids, scanVars, rows, calls, log, outVars, outcome >>

\* lines 112-116: the recent-filtered stream ends
RecentEnd ==
  /\ pc = "recent"
  /\ Quiet
  /\ log' = Progress("Recent participants counted")
  /\ pc' = "participants"
  /\ UNCHANGED << argVars, normVars, uiVars, taskVars, sessVars, resolveVars, enumVars, scanVars, rows,
                  calls, outVars, outcome >>

\* lines 109-111: the recent-id set after the recent-filtered stream raised:
\* the handler leaves it as it is
RecentIdsOnError(ids) == ids

\* lines 109-111: the recent-filtered stream raises
RecentFail ==
  /\ pc = "recent"
  /\ \E e \in ClientErrors :
       /\ Note("recent", e, Cardinality(recent_ids))
       /\ IF Caught(e)
         THEN /\ log' = Progress("Unable to enumerate recent members")
              /\ recent_ids' = RecentIdsOnError(recent_ids)
              /\ pc' = "participants"
              /\ UNCHANGED << argVars, normVars, uiVars, taskVars, sessVars, resolveVars, bot_count, participants,
                              seen_ids, fb_scanned, participant_ids, scanVars, rows,
                              calls, outVars, outcome >>
         ELSE /\ Raise(e)
              /\ UNCHANGED << rows, csv_written >>

\* ------------------------------ export_member_data: participants (255-276)
\* the set of ids of a list of users
IdsOf(list) == { list[i] : i \in 1..Len(list) }

\* lines 276-279: participant_ids and the progress note before the scan
EnterScan_SkipsScan(list) ==
  /\ participant_ids' = IdsOf(list)
  /\ history' = << >>
  /\ log' = Progress("Scanning message activity...")
  /\ pc' = "rows"

EnterScan(list) ==
  /\ participant_ids' = IdsOf(list)
  /\ history' = << >>
  /\ log' = Progress("Scanning message activity...")
  /\ pc' = "scan"

\* lines 257-260: the unfiltered participant stream yields a user; the code
\* appends whatever the stream delivers
PartYield ==
  /\ pc = "participants"
  /\ Quiet
  /\ Len(participants) < MaxParticipants
  /\ \E u \in Users :
       /\ participants' = Append(participants, u)
       /\ log' = IF Len(participants') % ParticipantProgressEvery = 0
                   THEN Progress("Participants collected") ELSE log
  /\ UNCHANGED << pc, argVars, normVars, uiVars, taskVars, sessVars, resolveVars, bot_count, recent_ids, seen_ids,
                  fb_scanned, participant_ids, scanVars, rows, calls, outVars, outcome >>

TakesFallback_AnyMode(list, m) == list = << >>

\* line 262: the fallback is taken
TakesFallback(list, m) == list = << >> /\ m = "member"

\* lines 262-266 and 276-279: the participant stream ends
PartEnd ==
  /\ pc = "participants"
  /\ Quiet
  /\ IF TakesFallback(participants, mode)
       THEN /\ log' = Progress("No participants via API; scanning messages as fallback...")
            /\ pc' = "fallback"
            /\ UNCHANGED << participant_ids, history >>
       ELSE EnterScan(participants)
  /\ UNCHANGED << argVars, normVars, uiVars, taskVars, sessVars, resolveVars, bot_count, recent_ids, participants,
                  seen_ids, fb_scanned, scanned, message, last_post, last_reaction,
                  rows, calls, outVars, outcome >>

\* line 257: the participant stream raises; nothing catches it
PartFail ==
  /\ pc = "participants"
  /\ \E e \in ClientErrors : Raise(e) /\ Note("participants", e, Len(participants))
  /\ UNCHANGED << rows, csv_written >>

\* line 269: the sender of a fallback message is looked up
IsNewSender(sender_id, seen) == sender_id # NoneId /\ sender_id \notin seen

\* lines 267-274: the fallback stream (limit = history_limit) yields a message;
\* a new sender is looked up with client.get_entity, which returns the user of
\* that id or raises; history holds the senders of the fallback scan until the
\* activity scan begins
FallbackMsg ==
  /\ pc = "fallback"
  /\ fb_scanned < history_limit
  /\ \E sender_id \in Users \cup {NoneId}, res \in {"user"} \cup ClientErrors :
       IF IsNewSender(sender_id, seen_ids)
         THEN IF res = "user"
                THEN /\ Quiet
                     /\ fb_scanned' = fb_scanned + 1
                     /\ participants' = Append(participants, sender_id)
                     /\ seen_ids' = seen_ids \cup {sender_id}
                     /\ IF Len(participants') >= history_limit
                          THEN EnterScan(participants')
                          ELSE /\ history' = IF tracing THEN Append(history, sender_id)
                                                        ELSE history
                               /\ UNCHANGED << pc, participant_ids, log >>
                     /\ UNCHANGED << argVars, normVars, uiVars, taskVars, sessVars, resolveVars, bot_count, recent_ids,
                                     scanned, message, last_post, last_reaction,
                                     rows, calls, outVars, outcome >>
                ELSE /\ Raise(res)
                     /\ Note("fallback.get_entity", res, fb_scanned)
                     /\ UNCHANGED << rows, csv_written >>
         ELSE /\ res = "user"
              /\ Quiet
              /\ fb_scanned' = fb_scanned + 1
              /\ history' = IF tracing THEN Append(history, sender_id) ELSE history
              /\ UNCHANGED << pc, argVars, normVars, uiVars, taskVars, sessVars, resolveVars, bot_count, recent_ids,
                              participants, seen_ids, participant_ids, scanned, message,
                              last_post, last_reaction, rows, calls, log, outVars, outcome >>

\* line 267: the fallback stream is exhausted
FallbackEnd ==
  /\ pc = "fallback"
  /\ Quiet
  /\ EnterScan(participants)
  /\ UNCHANGED << argVars, normVars, uiVars, taskVars, sessVars, resolveVars, bot_count, recent_ids, participants,
                  seen_ids, fb_scanned, scanned, message, last_post, last_reaction,
                  rows, calls, outVars, outcome >>

\* line 267: the fallback stream raises
FallbackFail ==
  /\ pc = "fallback"
  /\ \E e \in ClientErrors : Raise(e) /\ Note("fallback", e, fb_scanned)
  /\ UNCHANGED << rows, csv_written >>

\* ---------------------------- member_export._collect_activity_maps (119-151)
\* one tuple of the list built by lines 176-190: the reacting user's id (None
\* for a peer that is no user), the emoji label and the reaction's own date,
\* which is the message's date or later
ReactionDelays == {0, 1}
ReactionEntries(date) ==
  [user_id : Users \cup {NoneId}, emoji : Emojis, date : { date + d : d \in ReactionDelays }]
ReactionLists(date) == UNION { [1..n -> ReactionEntries(date)] : n \in 0..MaxReactions }

RecordReaction_AnyUser(lr, r) ==
  IF r.user_id \notin DOMAIN lr THEN Put(lr, r.user_id, << r.emoji, r.date >>) ELSE lr

\* lines 139-140: record one reaction tuple (user_id, emoji, reaction_date)
RecordReaction(lr, r) ==
  IF r.user_id \in participant_ids /\ r.user_id \notin DOMAIN lr
    THEN Put(lr, r.user_id, << r.emoji, r.date >>)
    ELSE lr

\* lines 138-140: record every reaction of the returned list, in list order
RECURSIVE ApplyReactions(_, _)
ApplyReactions(reactions, lr) ==
  IF reactions = << >> THEN lr
  ELSE ApplyReactions(Tail(reactions), RecordReaction(lr, Head(reactions)))

\* lines 133-134: record the sender's post
RecordPost_LastWins(lp, sender_id, date) ==
  IF sender_id \in participant_ids THEN Put(lp, sender_id, date) ELSE lp

RecordPost(lp, sender_id, date) ==
  IF sender_id \in participant_ids /\ sender_id \notin DOMAIN lp
    THEN Put(lp, sender_id, date)
    ELSE lp

\* line 145: the test that ends the scan early
AllFound_PostsOnly(lp, lr) ==
  Cardinality(DOMAIN lp) = Cardinality(participant_ids)

AllFound_NonEmpty(lp, lr) ==
  /\ participant_ids # {}
  /\ Cardinality(DOMAIN lp) = Cardinality(participant_ids)
  /\ Cardinality(DOMAIN lr) = Cardinality(participant_ids)

AllFound(lp, lr) ==
  /\ Cardinality(DOMAIN lp) = Cardinality(participant_ids)
  /\ Cardinality(DOMAIN lr) = Cardinality(participant_ids)

\* lines 142-151: after a message: progress note, early break, return
AfterMessage(lp, lr, n) ==
  LET noted == IF n % ScanProgressEvery = 0 THEN Progress("Messages scanned") ELSE log
  IN /\ message' = NoMessage
     /\ IF AllFound(lp, lr)
          THEN /\ pc' = "rows"
               /\ log' = IF hasProgress THEN noted \cup {"Activity scan finished"} ELSE noted
          ELSE /\ pc' = "scan"
               /\ log' = noted

\* timestamp of the n-th message of the stream: newest first
DateOf(n) == NewestDate - n

\* lines 130-137: the message stream (limit = history_limit) yields the next
\* message, newest first
ScanMsg ==
  /\ pc = "scan"
  /\ Quiet
  /\ scanned < history_limit
  /\ \E sender_id \in Users \cup {NoneId}, has_reactions \in BOOLEAN :
       /\ scanned' = scanned + 1
       /\ history' = IF tracing THEN Append(history, sender_id) ELSE history
       /\ last_post' = RecordPost(last_post, sender_id, DateOf(scanned'))
       /\ IF has_reactions
            THEN /\ pc' = "fetch"
                 /\ message' = [sender |-> sender_id, date |-> DateOf(scanned')]
                 /\ UNCHANGED log
            ELSE AfterMessage(last_post', last_reaction, scanned')
  /\ UNCHANGED << argVars, normVars, uiVars, taskVars, sessVars, resolveVars, enumVars, last_reaction, rows,
                  calls, outVars, outcome >>

\* _fetch_reactions_for_message, lines 162-192, and lines 138-140: the first
\* (only) reaction page arrives
FetchReply ==
  /\ pc = "fetch"
  /\ Quiet
  /\ \E reactions \in ReactionLists(message.date) :
       /\ last_reaction' = ApplyReactions(reactions, last_reaction)
       /\ AfterMessage(last_post, last_reaction', scanned)
  /\ UNCHANGED << argVars, normVars, uiVars, taskVars, sessVars, resolveVars, enumVars, scanned, last_post, history,
                  rows, calls, outVars, outcome >>

\* _fetch_reactions_for_message, lines 173-174: the request raises; an RPCError
\* gives the empty list, anything else leaves the scan
FetchFail ==
  /\ pc = "fetch"
  /\ \E e \in ClientErrors :
       /\ Note("fetch", e, 0)
       /\ IF Caught(e)
         THEN /\ last_reaction' = ApplyReactions(<< >>, last_reaction)
              /\ AfterMessage(last_post, last_reaction', scanned)
              /\ UNCHANGED << argVars, normVars, uiVars, taskVars, sessVars, resolveVars, enumVars, scanned, last_post,
                              history, rows, calls, outVars, outcome >>
         ELSE /\ Raise(e)
              /\ UNCHANGED << rows, csv_written >>

\* lines 130 and 148-151: the message stream is exhausted
ScanEnd ==
  /\ pc = "scan"
  /\ Note("scan", "StopAsyncIteration", scanned)
  /\ pc' = "rows"
  /\ log' = Progress("Activity scan finished")
  /\ UNCHANGED << argVars, normVars, uiVars, taskVars, sessVars, resolveVars, enumVars, scanVars, rows,
                  calls, outVars, outcome >>

\* line 130: the message stream raises
ScanFail ==
  /\ pc = "scan"
  /\ \E e \in ClientErrors : Raise(e) /\ Note("scan", e, scanned)
  /\ UNCHANGED << rows, csv_written >>

\* ------------------------------------ export_member_data: rows (289-343)
\* the user objects of the chat, by id: user 1 is a bot with a username, user 2
\* has a first name only, every other user has no name at all
UserOf(u) ==
  [ id |-> u,
    bot |-> (u = 1),
    username |-> IF u = 1 THEN Some("bot1") ELSE None,
    first_name |-> IF u = 2 THEN Some("Bea") ELSE None,
    last_name |-> None,
    participant |-> IF u = 1 THEN "ChannelParticipantAdmin"
                    ELSE IF u = 2 THEN "ChannelParticipantLeft"
                    ELSE "ChannelParticipant" ]

\* dict.get on a dict held as a function: <<>> is None
Get(d, k) == IF k \in DOMAIN d THEN << d[k] >> ELSE None

\* _format_dt, lines 54-60, on the naive timestamps of the model
_format_dt(value) == IF value = None THEN "" ELSE ToString(value[1]) \o "Z"

\* _format_reaction, lines 63-72
_format_reaction(reaction) ==
  IF reaction = None THEN ""
  ELSE LET emoji == reaction[1][1]
           ts == _format_dt(<< reaction[1][2] >>)
       IN IF emoji # "" /\ ts # "" THEN emoji \o " @ " \o ts
          ELSE IF emoji # "" THEN emoji
          ELSE ts

\* _status_from_participant, lines 75-84
_status_from_participant(participant) ==
  IF participant \in {"ChannelParticipantAdmin", "ChannelParticipantCreator"} THEN "admin"
  ELSE IF participant = "ChannelParticipantBanned" THEN "restricted"
  ELSE IF participant = "ChannelParticipantLeft" THEN "restricted"
  ELSE "member"

\* lines 304-307: the username column
UsernameOf(user) ==
  IF Truthy(user.username) THEN user.username[1]
  ELSE LET first == IF Truthy(user.first_name) THEN user.first_name[1] ELSE ""
           last == IF Truthy(user.last_name) THEN user.last_name[1] ELSE ""
           joined == IF first # "" /\ last # "" THEN first \o " " \o last
                     ELSE first \o last
       IN IF joined # "" THEN joined ELSE "(no username)"

\* lines 309-322: the row of one user
RowOf(u) ==
  LET user == UserOf(u)
      base == [ user_id |-> user.id,
                username |-> UsernameOf(user),
                is_bot |-> user.bot,
                is_recent |-> (user.id \in recent_ids),
                last_post |-> _format_dt(Get(last_post, user.id)),
                last_reaction |-> _format_reaction(Get(last_reaction, user.id)) ]
  IN IF mode = "admin"
       THEN [ user_id |-> base.user_id, username |-> base.username,
              is_bot |-> base.is_bot, is_recent |-> base.is_recent,
              last_post |-> base.last_post, last_reaction |-> base.last_reaction,
              join_date |-> "",
              status |-> _status_from_participant(user.participant) ]
       ELSE base

\* lines 302-324: one row per entry of the participant list, in list order
RowsOf(list) == [ i \in 1..Len(list) |-> RowOf(list[i]) ]

ExportSummary_FromMaps(list, count, ids, title) ==
  [ total_members |-> Cardinality(DOMAIN last_post \cup DOMAIN last_reaction),
    bot_count |-> Cardinality({ u \in IdsOf(list) : UserOf(u).bot }),
    recent_count |-> Cardinality(ids \cap (DOMAIN last_post \cup DOMAIN last_reaction)),
    chat_title |-> title ]

\* lines 336-342: the summary of the run
ExportSummary(list, count, ids, title) ==
  [ total_members |-> Len(list),
    bot_count |-> count,
    recent_count |-> Cardinality(ids),
    chat_title |-> title ]

\* lines 289-343: the rows are built, the file is written and the summary
\* returned; no await separates these lines
WriteCsv ==
  /\ pc = "rows"
  /\ Quiet
  /\ rows' = RowsOf(participants)
  /\ csv_written' = TRUE
  /\ csv_rows' = rows'
  /\ log' = Progress("Saved CSV")
  /\ summary' = ExportSummary(participants, bot_count, recent_ids, chat_title)
  /\ pc' = "finally"
  /\ outcome' = "returned"
  /\ UNCHANGED << argVars, normVars, uiVars, taskVars, sessVars, resolveVars, enumVars, scanVars, calls >>

\* lines 289-331: the rows are built, then mkdir, open or a write raises
\* OSError, before the file was opened or after
WriteFail ==
  /\ pc = "rows"
  /\ Quiet
  /\ \E opened \in BOOLEAN : csv_written' = opened
  /\ Raise("OSError")
  /\ rows' = << >>

\* lines 344-350: the finally clause; unlink may fail with an OSError that
\* is swallowed
Finally ==
  /\ pc = "finally"
  /\ Quiet
  /\ client' = "disconnected"
  /\ \E removed \in BOOLEAN : tmp_session' = (tmp_session /\ ~removed)
  /\ pc' = "done"
  /\ UNCHANGED << argVars, normVars, uiVars, taskVars, resolveVars, enumVars, scanVars, rows, calls, log,
                  outVars, outcome >>

\* ------------------------------------------------------- specifications
Next ==
  \/ BeginRun \/ ClientStartOk \/ ClientStartFail
  \/ ResolveBegin \/ InviteReply \/ InviteError \/ LookupReply \/ LookupError
  \/ BotsYield \/ BotsEnd \/ BotsFail
  \/ RecentYield \/ RecentEnd \/ RecentFail
  \/ PartYield \/ PartEnd \/ PartFail
  \/ FallbackMsg \/ FallbackEnd \/ FallbackFail
  \/ ScanMsg \/ FetchReply \/ FetchFail \/ ScanEnd \/ ScanFail
  \/ WriteCsv \/ WriteFail \/ Finally

\* a whole run of export_member_data
Spec == Init /\ [][Next]_vars

\* a whole run with a progress callback, the client's answers recorded in
\* event and the scanned senders in history
InitTraced == RunCall({TRUE}, TRUE)

SpecTraced == InitTraced /\ [][Next]_vars

\* the frame of export_member_data at position p, chat resolved and nothing
\* collected yet: the state in which lines 253 and 281 call the helpers
HelperCallIn(p, modes) ==
  /\ NormIdle
  /\ UiIdle
  /\ TaskIdle
  /\ pc = p
  /\ mode \in modes
  /\ chat_username \in { c \in ChatInputs : c.kind = "NormalizedChat" /\ c.invite_hash = None }
  /\ hasProgress \in BOOLEAN
  /\ tracing = TRUE
  /\ tmp_session = FALSE
  /\ client = "connected"
  /\ normalized_chat = chat_username
  /\ entity \in { e \in Entities : Truthy(e.title) }
  /\ chat_title = ChatTitle(entity, normalized_chat)
  /\ bot_count = 0
  /\ recent_ids = {}
  /\ participants = << >>
  /\ seen_ids = {}
  /\ fb_scanned = 0
  /\ scanned = 0
  /\ message = NoMessage
  /\ last_post = EmptyMap
  /\ last_reaction = EmptyMap
  /\ rows = << >>
  /\ history = << >>
  /\ calls = << >>
  /\ event = NoEvent
  /\ log = {}
  /\ csv_rows = << >>
  /\ csv_written = FALSE
  /\ summary = NoSummary
  /\ outcome = "running"

HelperCall(p) == HelperCallIn(p, {"member"})

\* a run of export_member_data up to the end of chat resolution, with or
\* without a progress callback, the client's answers recorded in event
InitResolve == RunCall(BOOLEAN, TRUE)

NextResolve ==
  \/ BeginRun \/ ClientStartOk \/ ClientStartFail
  \/ ResolveBegin \/ InviteReply \/ InviteError \/ LookupReply \/ LookupError
  \/ Finally

SpecResolve == InitResolve /\ [][NextResolve]_vars

\* a call of _collect_bots_and_recent (line 253)
InitCollect ==
  /\ HelperCall("bots")
  /\ history_limit \in 0..MaxLimit
  /\ participant_ids = {}

NextCollect ==
  \/ BotsYield \/ BotsEnd \/ BotsFail
  \/ RecentYield \/ RecentEnd \/ RecentFail

SpecCollect == InitCollect /\ [][NextCollect]_vars

\* lines 255-279 of export_member_data: the unfiltered enumeration and the
\* fallback scan, in either mode
InitEnum ==
  /\ HelperCallIn("participants", {"member", "admin"})
  /\ history_limit \in 0..FallbackLimit
  /\ participant_ids = {}

NextEnum ==
  \/ PartYield \/ PartEnd \/ PartFail
  \/ FallbackMsg \/ FallbackEnd \/ FallbackFail

SpecEnum == InitEnum /\ [][NextEnum]_vars

\* ------------------------------ chat_utils.normalize_chat_identifier, alone
\* the arguments of a stand-alone call. Numeric strings: an optional sign, a
\* lead and up to MaxTailDigits further digits
TailDigits(n) == [ i \in 1..n |-> CASE i % 3 = 1 -> "1" [] i % 3 = 2 -> "2" [] OTHER -> "0" ]
NumericStrs ==
  { sign \o lead \o TailDigits(n) :
      sign \in { << >>, << "-" >> },
      lead \in { << "1", "0", "0" >>, << "1", "0" >>, << "2", "0", "0" >> },
      n \in 0..MaxTailDigits }

\* strings that are neither numeric nor links
PlainStrs ==
  { << >>, << "s", "o", "m", "e", "c", "h", "a", "t" >>, << "@", "n", "a", "m", "e" >>, << "+", "A", "b", "C", "d", "E", "f", "1", "2" >>, << "+" >>, << "+", "+", "x" >>, << "+", "4", "9", "1", "7" >>, << "-", "1", "0", "0", "1", "2", "3", "4", "5", "6", "7", "8", "9", "0" >> }

\* links: scheme, host, up to MaxSegments path segments (any two segments of
\* LinkSegments, then segments of TrailSegments), then nothing, a slash or a
\* query
LinkSchemes == { HttpsPrefix, HttpPrefix, << "H", "T", "T", "P", "S", ":", "/", "/" >>, << "t", "g", ":", "/", "/" >> }
LinkHosts == { << "t", ".", "m", "e" >>, << "T", ".", "M", "E" >>, << "w", "w", "w", ".", "t", "e", "l", "e", "g", "r", "a", "m", ".", "d", "o", "g" >>, << "e", "x", "a", "m", "p", "l", "e", ".", "c", "o", "m" >> }
LinkSegments ==
  { << "c" >>, << "C" >>, << "j", "o", "i", "n", "c", "h", "a", "t" >>, << "a", "d", "d", "s", "t", "i", "c", "k", "e", "r", "s" >>, << "+", "A", "b", "C", "d", "E", "f", "1", "2" >>, << "+" >>, << "+", "+", "x" >>,
    << "n", "a", "m", "e" >>, << "1", "2", "3", "4", "5", "6", "7", "8", "9", "0" >>, << "-", "1", "0", "0", "1", "2", "3" >>, << "-", "5" >>, << "a", "b", "1", "2" >>, << "1", "-", "2" >>, << "9", "9" >>, << "A", "b", "C", "d", "E", "f", "1", "2" >>, << >> }
TrailSegments == { << "9", "9" >>, << "n", "a", "m", "e" >> }
RECURSIVE PathsOfLength(_)
PathsOfLength(n) ==
  IF n = 0 THEN { << >> }
  ELSE { path \o << "/" >> \o seg :
           path \in PathsOfLength(n - 1),
           seg \in IF n <= 2 THEN LinkSegments ELSE TrailSegments }
PathsOf(n) == UNION { PathsOfLength(k) : k \in 0..n }
LinkEndings == { << >>, << "/" >>, << "?", "x" >> }
LinkStrs ==
  { scheme \o host \o path \o ending :
      scheme \in LinkSchemes, host \in LinkHosts,
      path \in { q \in PathsOf(MaxSegments) : q = << >> \/ q[Len(q)] # "/" },
      ending \in LinkEndings }

\* every str argument, bare or with whitespace around it
Paddings == { << >>, << " " >> }
StrInputs ==
  { [kind |-> "str", value |-> before \o str \o after] :
      before \in Paddings, after \in Paddings,
      str \in NumericStrs \cup PlainStrs \cup LinkStrs }

\* int arguments, as numerals
IntInputs ==
  { [kind |-> "int", value |-> numeral] :
      numeral \in { << "1", "2", "3", "4", "5" >>, << "-", "1", "0", "0", "1", "2", "3", "4", "5", "6", "7", "8", "9", "0" >>, << "1", "0", "0", "1", "2", "3", "4", "5" >>, << "0" >>, << "-", "5" >> } }

NormalizeInputs ==
  StrInputs \cup IntInputs \cup { c \in ChatInputs : c.kind # "NormalizedChat" }

\* the export is not running
ExportIdle ==
  /\ pc = "idle"
  /\ mode = "member"
  /\ history_limit = 0
  /\ chat_username = NoChat
  /\ hasProgress = FALSE
  /\ tracing = FALSE
  /\ tmp_session = FALSE
  /\ client = "none"
  /\ FreshFrame
  /\ calls = << >>
  /\ event = NoEvent
  /\ log = {}
  /\ csv_rows = << >>
  /\ csv_written = FALSE
  /\ summary = NoSummary
  /\ outcome = "running"

InitNormalize ==
  /\ ExportIdle
  /\ UiIdle
  /\ TaskIdle
  /\ nz_pc = "call"
  /\ nz_chat \in NormalizeInputs
  /\ nz_ref = NoChat
  /\ nz_again = NoChat

\* normalize_chat_identifier(chat) returns
NormalizeCall ==
  /\ nz_pc = "call"
  /\ nz_ref' = normalize_chat_identifier(nz_chat)
  /\ nz_pc' = "returned"
  /\ UNCHANGED << exportVars, uiVars, taskVars, nz_chat, nz_again >>

\* the caller normalizes the raw text of the descriptor it got (ui.py re-reads
\* the text field)
NormalizeRawAgain ==
  /\ nz_pc = "returned"
  /\ nz_ref.kind = "NormalizedChat"
  /\ nz_again' = normalize_chat_identifier([kind |-> "str", value |-> nz_ref.raw])
  /\ nz_pc' = "again.raw"
  /\ UNCHANGED << exportVars, uiVars, taskVars, nz_chat, nz_ref >>

\* the caller passes the descriptor itself (ui.py:595 to member_export.py:232)
NormalizeDescriptorAgain ==
  /\ nz_pc = "returned"
  /\ nz_ref.kind = "NormalizedChat"
  /\ nz_again' = normalize_chat_identifier(nz_ref)
  /\ nz_pc' = "again.descriptor"
  /\ UNCHANGED << exportVars, uiVars, taskVars, nz_chat, nz_ref >>

NextNormalize == NormalizeCall \/ NormalizeRawAgain \/ NormalizeDescriptorAgain

SpecNormalize == InitNormalize /\ [][NextNormalize]_vars

\* a call of _collect_activity_maps (line 281) with any participant id set and
\* any limit, the senders of the scanned messages recorded in history
InitScan ==
  /\ HelperCall("scan")
  /\ history_limit \in 0..ScanLimit
  /\ participant_ids \in SUBSET Users

NextScan == ScanMsg \/ FetchReply \/ FetchFail \/ ScanEnd \/ ScanFail

SpecScan == InitScan /\ [][NextScan]_vars

\* ------------------------------------- ui.App: preview resolution (185-399)
\* texts of the chat field: empty, a name, the same name with a blank before
\* it, an invite shorthand
UiChats ==
  { << >>,
    << "s", "o", "m", "e", "c", "h", "a", "t" >>,
    << " ", "s", "o", "m", "e", "c", "h", "a", "t" >>,
    << "+", "A", "b", "C", "d", "E", "f", "1", "2" >> }

\* texts of the API id field: empty, a number, no number (the API hash field
\* is taken as filled in)
UiApiIds == { << >>, << "1" >>, << "x" >> }

\* NormalizedChat.__eq__ of the frozen dataclass, None being equal to None only
DataclassEq(a, b) ==
  /\ a.kind = b.kind
  /\ a.kind = "NormalizedChat" => (a.raw = b.raw /\ a.target = b.target
                                   /\ a.invite_hash = b.invite_hash)

\* the App after __init__ (185-191): no job, nothing resolved, and the first
\* preview scheduled
InitUi ==
  /\ ExportIdle
  /\ NormIdle
  /\ TaskIdle
  /\ chat_var \in UiChats
  /\ api_id_var \in UiApiIds
  /\ output_user_modified \in BOOLEAN
  /\ output_var = IF output_user_modified THEN [kind |-> "user", of |-> << >>] ELSE NoOutput
  /\ chat_name_var = NoName
  /\ last_resolved_chat = NoChat
  /\ chat_resolve_job = 1
  /\ after_jobs = {1}
  /\ job_count = 1
  /\ workers = {}
  /\ started = 0
  /\ applied = NoWriter
  /\ fired = NoJob
  /\ last_success = NoChat
  /\ unlinked = NoUnlink
  /\ start_btn = "normal"
  /\ exports = {}
  /\ runs = 0

Reschedule_NoCancel(jobs, pending, new) == jobs \cup {new}

\* lines 213-218: the pending job is cancelled, the new one is queued
Reschedule(jobs, pending, new) == (jobs \ {pending}) \cup {new}

\* schedule_chat_resolution (210-218)
schedule_chat_resolution ==
  /\ job_count < MaxJobs
  /\ job_count' = job_count + 1
  /\ after_jobs' = Reschedule(after_jobs, chat_resolve_job, job_count + 1)
  /\ chat_resolve_job' = job_count + 1

\* on_chat_var_change (203-204): the text of the chat field is written
on_chat_var_change ==
  /\ pc = "idle"
  /\ \E text \in UiChats : chat_var' = text
  /\ schedule_chat_resolution
  /\ UNCHANGED << exportVars, normVars, taskVars, startVars, unlinked, api_id_var, output_var, output_user_modified,
                  chat_name_var, last_resolved_chat, workers, started, applied, fired,
                  last_success >>

\* on_chat_selected (200-201)
on_chat_selected ==
  /\ pc = "idle"
  /\ schedule_chat_resolution
  /\ UNCHANGED << exportVars, normVars, taskVars, startVars, unlinked, chat_var, api_id_var, output_var,
                  output_user_modified, chat_name_var, last_resolved_chat, workers,
                  started, applied, fired, last_success >>

\* on_credentials_change (206-208)
on_credentials_change ==
  /\ pc = "idle"
  /\ \E text \in UiApiIds : api_id_var' = text
  /\ last_resolved_chat' = NoChat
  /\ schedule_chat_resolution
  /\ UNCHANGED << exportVars, normVars, taskVars, startVars, unlinked, chat_var, output_var, output_user_modified,
                  chat_name_var, workers, started, applied, fired, last_success >>

\* lines 353-365: why on_resolve_chat returns before it starts a thread
ReturnsEarly ==
  LET chat == Strip(chat_var, Whitespace)
      ref == normalize_chat_identifier([kind |-> "str", value |-> chat])
  IN IF chat = << >> \/ Strip(api_id_var, Whitespace) = << >> THEN "incomplete"
     ELSE IF ref.kind # "NormalizedChat" THEN "invalid"
     ELSE IF DataclassEq(ref, last_resolved_chat) THEN "unchanged"
     ELSE IF ~IntParses(Strip(api_id_var, Whitespace)) THEN "bad_api_id"
     ELSE "no"

\* on_resolve_chat (351-365) run by the timer, returning early
ResolveSkipped ==
  /\ pc = "idle"
  /\ \E job \in after_jobs :
       /\ after_jobs' = after_jobs \ {job}
       /\ fired' = [job |-> job, did |-> ReturnsEarly]
  /\ ReturnsEarly # "no"
  /\ chat_resolve_job' = 0
  /\ UNCHANGED << exportVars, normVars, taskVars, startVars, unlinked, chat_var, api_id_var, output_var,
                  output_user_modified, chat_name_var, last_resolved_chat, job_count,
                  workers, started, applied, last_success >>

\* on_resolve_chat (351-399) run by the timer, starting a preview thread
ResolveStarted ==
  /\ pc = "idle"
  /\ started < MaxResolutions
  /\ \E job \in after_jobs :
       /\ after_jobs' = after_jobs \ {job}
       /\ fired' = [job |-> job, did |-> "started"]
  /\ ReturnsEarly = "no"
  /\ chat_resolve_job' = 0
  /\ started' = started + 1
  /\ workers' = workers \cup
       { [id |-> started + 1, at |-> "resolving",
          ref |-> normalize_chat_identifier(
                    [kind |-> "str", value |-> Strip(chat_var, Whitespace)])] }
  /\ UNCHANGED << exportVars, normVars, taskVars, startVars, unlinked, chat_var, api_id_var, output_var,
                  output_user_modified, chat_name_var, last_resolved_chat, job_count,
                  applied, last_success >>

\* suggest_output_from_chat (333-349): the path is replaced when forced or when
\* it is empty or still the default
Suggested(name, force) ==
  IF force \/ output_var.kind = "default"
    THEN [kind |-> "suggested", of |-> name]
    ELSE output_var

\* lines 380-385: the finally of the thread of w disconnects and removes
\* resolve_preview.session, whoever else is connected through it
Unlinks(w) == [by |-> w.id, others |-> { v.id : v \in { x \in workers : x # w /\ x.at = "resolving" } }]

Moves(w, at) == (workers \ {w}) \cup { [w EXCEPT !.at = at] }
Wrote(w) == [id |-> w.id, newest |-> started]

\* lines 377-378 and apply_chat_resolution (236-241): the thread of w resolved
\* its reference; the name is the title, the username or the raw text
WorkerResolved ==
  /\ pc = "idle"
  /\ \E w \in workers :
       /\ w.at = "resolving"
       /\ \E kind \in {"title", "raw"} :
            /\ chat_name_var' = [kind |-> kind, of |-> w.ref.raw]
            /\ output_var' = Suggested(chat_name_var', ~output_user_modified)
       /\ last_resolved_chat' = w.ref
       /\ last_success' = w.ref
       /\ applied' = Wrote(w)
       /\ unlinked' = Unlinks(w)
       /\ workers' = workers \ {w}
  /\ UNCHANGED << exportVars, normVars, taskVars, startVars, chat_var, api_id_var, output_user_modified,
                  chat_resolve_job, after_jobs, job_count, started, fired >>

\* lines 387-389: ValueError, the raw text is shown as the name
WorkerDeferred ==
  /\ pc = "idle"
  /\ \E w \in workers :
       /\ w.at = "resolving"
       /\ chat_name_var' = [kind |-> "raw", of |-> w.ref.raw]
       /\ applied' = Wrote(w)
       /\ unlinked' = Unlinks(w)
       /\ workers' = Moves(w, "deferred.output")
  /\ UNCHANGED << exportVars, normVars, taskVars, startVars, chat_var, api_id_var, output_var,
                  output_user_modified, last_resolved_chat, chat_resolve_job, after_jobs,
                  job_count, started, fired, last_success >>

\* line 390: the output path is suggested from the raw text, not forced
WorkerDeferredOutput ==
  /\ pc = "idle"
  /\ \E w \in workers :
       /\ w.at = "deferred.output"
       /\ output_var' = Suggested([kind |-> "raw", of |-> w.ref.raw], FALSE)
       /\ applied' = Wrote(w)
       /\ workers' = Moves(w, "deferred.reset")
  /\ UNCHANGED << exportVars, normVars, taskVars, startVars, unlinked, chat_var, api_id_var, output_user_modified,
                  chat_name_var, last_resolved_chat, chat_resolve_job, after_jobs,
                  job_count, started, fired, last_success >>

\* lines 391-393: the thread forgets the last resolved reference and ends
WorkerDeferredReset ==
  /\ pc = "idle"
  /\ \E w \in workers :
       /\ w.at = "deferred.reset"
       /\ last_resolved_chat' = NoChat
       /\ applied' = Wrote(w)
       /\ workers' = workers \ {w}
  /\ UNCHANGED << exportVars, normVars, taskVars, startVars, unlinked, chat_var, api_id_var, output_var,
                  output_user_modified, chat_name_var, chat_resolve_job, after_jobs,
                  job_count, started, fired, last_success >>

\* lines 394-395: any other exception, the last resolved reference is forgotten
WorkerFailed ==
  /\ pc = "idle"
  /\ \E w \in workers :
       /\ w.at = "resolving"
       /\ last_resolved_chat' = NoChat
       /\ applied' = Wrote(w)
       /\ unlinked' = Unlinks(w)
       /\ workers' = Moves(w, "error.name")
  /\ UNCHANGED << exportVars, normVars, taskVars, startVars, chat_var, api_id_var, output_var,
                  output_user_modified, chat_name_var, chat_resolve_job, after_jobs,
                  job_count, started, fired, last_success >>

\* lines 396-398: the error text is shown as the name, the thread ends
WorkerFailedName ==
  /\ pc = "idle"
  /\ \E w \in workers :
       /\ w.at = "error.name"
       /\ chat_name_var' = [kind |-> "error", of |-> << >>]
       /\ applied' = Wrote(w)
       /\ workers' = workers \ {w}
  /\ UNCHANGED << exportVars, normVars, taskVars, startVars, unlinked, chat_var, api_id_var, output_var,
                  output_user_modified, last_resolved_chat, chat_resolve_job, after_jobs,
                  job_count, started, fired, last_success >>

\* ------------------------------------------- ui.App: Start button (445-657)
set_running_NeverDisables(running) == "normal"

\* set_running (445-447): the state of the Start button
set_running(running) == IF running THEN "disabled" ELSE "normal"

\* on_start, lines 492-524: the checks that end on_start with an error box
\* (phone, API hash and output path are taken as filled in)
StartRejected ==
  LET chat == Strip(chat_var, Whitespace)
      api_id_raw == Strip(api_id_var, Whitespace)
  IN \/ chat = << >> \/ api_id_raw = << >>
     \/ ~IntParses(api_id_raw)
     \/ normalize_chat_identifier([kind |-> "str", value |-> chat]).kind # "NormalizedChat"

\* a click on the Start button, which Tk delivers only while the button is
\* not disabled: on_start returns after an error box
on_start_Rejected ==
  /\ pc = "idle"
  /\ start_btn = "normal"
  /\ StartRejected
  /\ UNCHANGED vars

\* a click on the Start button: on_start (490-657) passes its checks, writes
\* the normalized text back to the chat field (line 525, which runs
\* on_chat_var_change), disables the button and starts the export thread
on_start_Started ==
  /\ pc = "idle"
  /\ start_btn = "normal"
  /\ ~StartRejected
  /\ runs < MaxRuns
  /\ LET ref == normalize_chat_identifier(
                  [kind |-> "str", value |-> Strip(chat_var, Whitespace)])
     IN /\ chat_var' = ref.raw
        /\ exports' = exports \cup { [id |-> runs + 1, at |-> "preflight", ref |-> ref] }
  /\ schedule_chat_resolution
  /\ start_btn' = set_running(TRUE)
  /\ runs' = runs + 1
  /\ UNCHANGED << exportVars, normVars, taskVars, api_id_var, output_var, output_user_modified,
                  chat_name_var, last_resolved_chat, workers, started, applied, fired,
                  last_success, unlinked >>

Advances(x, at) == (exports \ {x}) \cup { [x EXCEPT !.at = at] }

\* lines 556-592: the preflight succeeded; with no chat name shown yet the
\* output path is suggested from the raw text, not forced
ExportPreflightOk ==
  /\ pc = "idle"
  /\ \E x \in exports :
       /\ x.at = "preflight"
       /\ output_var' = IF chat_name_var.kind = "empty"
                          THEN Suggested([kind |-> "raw", of |-> x.ref.raw], FALSE)
                          ELSE output_var
       /\ exports' = Advances(x, "exporting")
  /\ UNCHANGED << exportVars, normVars, taskVars, chat_var, api_id_var, output_user_modified,
                  chat_name_var, last_resolved_chat, chat_resolve_job, after_jobs,
                  job_count, workers, started, applied, fired, last_success, unlinked,
                  start_btn, runs >>

\* lines 598-642: export_member_data returned; its chat title is applied as a
\* resolution (apply_chat_resolution, 236-241)
ExportReturned ==
  /\ pc = "idle"
  /\ \E x \in exports :
       /\ x.at = "exporting"
       /\ \E kind \in {"title", "raw"} :
            /\ chat_name_var' = [kind |-> kind, of |-> x.ref.raw]
            /\ output_var' = Suggested(chat_name_var', ~output_user_modified)
       /\ last_resolved_chat' = x.ref
       /\ last_success' = x.ref
       /\ exports' = Advances(x, "finally")
  /\ UNCHANGED << exportVars, normVars, taskVars, chat_var, api_id_var, output_user_modified,
                  chat_resolve_job, after_jobs, job_count, workers, started, applied,
                  fired, unlinked, start_btn, runs >>

\* lines 643-651: the preflight or export_member_data raised; the error is
\* logged and shown
ExportRaised ==
  /\ pc = "idle"
  /\ \E x \in exports :
       /\ x.at \in {"preflight", "exporting"}
       /\ exports' = Advances(x, "finally")
  /\ UNCHANGED << exportVars, normVars, taskVars, chat_var, api_id_var, output_var,
                  output_user_modified, chat_name_var, last_resolved_chat,
                  chat_resolve_job, after_jobs, job_count, workers, started, applied,
                  fired, last_success, unlinked, start_btn, runs >>

\* lines 652-654: finally, the Start button is enabled again and the thread ends
ExportFinally ==
  /\ pc = "idle"
  /\ \E x \in exports :
       /\ x.at = "finally"
       /\ exports' = exports \ {x}
  /\ start_btn' = set_running(FALSE)
  /\ UNCHANGED << exportVars, normVars, taskVars, chat_var, api_id_var, output_var,
                  output_user_modified, chat_name_var, last_resolved_chat,
                  chat_resolve_job, after_jobs, job_count, workers, started, applied,
                  fired, last_success, unlinked, runs >>

NextUi ==
  \/ on_chat_var_change
  \/ on_chat_selected
  \/ on_credentials_change
  \/ ResolveSkipped
  \/ ResolveStarted
  \/ WorkerResolved
  \/ WorkerDeferred
  \/ WorkerDeferredOutput
  \/ WorkerDeferredReset
  \/ WorkerFailed
  \/ WorkerFailedName

\* the App with nothing but previews
SpecUi == InitUi /\ [][NextUi]_vars

NextApp ==
  \/ NextUi
  \/ on_start_Rejected
  \/ on_start_Started
  \/ ExportPreflightOk
  \/ ExportReturned
  \/ ExportRaised
  \/ ExportFinally

\* the App with previews and export runs
SpecApp == InitUi /\ [][NextApp]_vars

\* ================================================ export.export_task (12-138)
\* min(a, b)
Min(a, b) == IF a <= b THEN a ELSE b

TaskModes == {"count_bots", "export"}
TaskUsers == 1..MaxTaskUsers

\* line 138: the returned dict
TaskReturned == [kind |-> "returned", bots |-> bots, total |-> total,
                 fallback |-> IF fallback_used = << >> THEN FALSE ELSE fallback_used[1]]
TaskRaised(e) == [kind |-> "raised", error |-> e]

\* a call of export_task with any mode and limit
InitTask ==
  /\ ExportIdle
  /\ NormIdle
  /\ UiIdle
  /\ task_pc = "start"
  /\ task_mode \in TaskModes
  /\ task_limit \in 0..MaxTaskLimit
  /\ bots = 0
  /\ total = 0
  /\ task_seen = {}
  /\ msgs = 0
  /\ fallback_used = << >>
  /\ task_rows = 0
  /\ yielded = {}
  /\ task_result = NoResult

\* lines 26-54: the client starts, the entity is found, the counters are zeroed
TaskStarted ==
  /\ task_pc = "start"
  /\ task_pc' = "participants"
  /\ bots' = 0
  /\ total' = 0
  /\ UNCHANGED << exportVars, normVars, uiVars, task_mode, task_limit, task_seen,
                  msgs, fallback_used, task_rows, yielded, task_result >>

\* lines 27, 30: client.start or get_entity raises, outside every try
TaskStartRaised ==
  /\ task_pc = "start"
  /\ \E e \in ClientErrors :
       /\ task_pc' = "raised"
       /\ task_result' = TaskRaised(e)
  /\ UNCHANGED << exportVars, normVars, uiVars, task_mode, task_limit, bots, total,
                  task_seen, msgs, fallback_used, task_rows, yielded >>

\* lines 58-83: the participant stream yields a user
TaskParticipant ==
  /\ task_pc = "participants"
  /\ total < task_limit
  /\ \E u \in TaskUsers \ yielded :
       /\ yielded' = yielded \cup {u}
       /\ total' = total + 1
       /\ bots' = IF UserOf(u).bot THEN bots + 1 ELSE bots
       /\ task_rows' = IF task_mode = "export" /\ Truthy(UserOf(u).username)
                       THEN task_rows + 1 ELSE task_rows
  /\ UNCHANGED << exportVars, normVars, uiVars, task_pc, task_mode, task_limit,
                  task_seen, msgs, fallback_used, task_result >>

\* lines 116-117: the participant stream ends
TaskParticipantsEnd ==
  /\ task_pc = "participants"
  /\ task_pc' = "save"
  /\ fallback_used' = << FALSE >>
  /\ UNCHANGED << exportVars, normVars, uiVars, task_mode, task_limit, bots, total,
                  task_seen, msgs, task_rows, yielded, task_result >>

\* lines 84-87, 99-104, 114-115: the participant stream raises
TaskParticipantsRaised ==
  /\ task_pc = "participants"
  /\ \E e \in ClientErrors :
       IF IsRPCError(e) /\ task_mode = "count_bots"
       THEN /\ task_pc' = "fallback"
            /\ task_seen' = {}
            /\ UNCHANGED task_result
       ELSE /\ task_pc' = "raised"
            /\ task_result' = TaskRaised(e)
            /\ UNCHANGED task_seen
  /\ UNCHANGED << exportVars, normVars, uiVars, task_mode, task_limit, bots, total,
                  msgs, fallback_used, task_rows, yielded >>

\* lines 89-95, 105-111: the message stream of the fallback yields a message
TaskMessage ==
  /\ task_pc = "fallback"
  /\ msgs < Min(task_limit, FallbackCap)
  /\ msgs' = msgs + 1
  /\ \E sender \in TaskUsers \cup {NoneId} :
       IF IsNewSender(sender, task_seen)
       THEN /\ task_seen' = task_seen \cup {sender}
            /\ bots' = IF UserOf(sender).bot THEN bots + 1 ELSE bots
       ELSE UNCHANGED << task_seen, bots >>
  /\ UNCHANGED << exportVars, normVars, uiVars, task_pc, task_mode, task_limit, total,
                  fallback_used, task_rows, yielded, task_result >>

\* lines 89-90, 105-106: the message stream or get_sender raises inside the handler
TaskMessageRaised ==
  /\ task_pc = "fallback"
  /\ \E e \in ClientErrors :
       /\ task_pc' = "raised"
       /\ task_result' = TaskRaised(e)
  /\ UNCHANGED << exportVars, normVars, uiVars, task_mode, task_limit, bots, total,
                  task_seen, msgs, fallback_used, task_rows, yielded >>

\* lines 96-98, 112-113: the message stream ends
TaskFallbackEnd ==
  /\ task_pc = "fallback"
  /\ task_pc' = "save"
  /\ total' = Cardinality(task_seen)
  /\ fallback_used' = << TRUE >>
  /\ UNCHANGED << exportVars, normVars, uiVars, task_mode, task_limit, bots,
                  task_seen, msgs, task_rows, yielded, task_result >>

\* lines 120-138: the summary rows, the saved document and the returned dict
TaskReturn ==
  /\ task_pc = "save"
  /\ task_pc' = "returned"
  /\ task_rows' = IF task_mode = "count_bots" THEN task_rows + 2 ELSE task_rows
  /\ task_result' = TaskReturned
  /\ UNCHANGED << exportVars, normVars, uiVars, task_mode, task_limit, bots, total,
                  task_seen, msgs, fallback_used, yielded >>

\* lines 130-131: doc.save or client.disconnect raises
TaskSaveRaised ==
  /\ task_pc = "save"
  /\ task_pc' = "raised"
  /\ task_rows' = IF task_mode = "count_bots" THEN task_rows + 2 ELSE task_rows
  /\ \E e \in {"OSError", "ConnectionError"} : task_result' = TaskRaised(e)
  /\ UNCHANGED << exportVars, normVars, uiVars, task_mode, task_limit, bots, total,
                  task_seen, msgs, fallback_used, yielded >>

NextTask ==
  \/ TaskStarted
  \/ TaskStartRaised
  \/ TaskParticipant
  \/ TaskParticipantsEnd
  \/ TaskParticipantsRaised
  \/ TaskMessage
  \/ TaskMessageRaised
  \/ TaskFallbackEnd
  \/ TaskReturn
  \/ TaskSaveRaised

\* a call of export_task
SpecTask == InitTask /\ [][NextTask]_vars

\* ======================================================== properties
\* C1: on every exit path of export_member_data after the client has been
\* created (return, failed client start, failed resolution, failed enumeration
\* or scan, failed write) the client is disconnected before the run hands
\* control back.
C1_SessionReleasedOnExit ==
  (pc = "done" /\ client # "none") => client = "disconnected"

\* C2: a recent-filtered sub-stream that fails with a permission or protocol
\* error, before or after yielding users, leaves an empty recent-id set: the
\* completed run reports recent_count 0 and no row has is_recent set.
C2_RecentFailureGivesEmptySet ==
  ("Unable to enumerate recent members" \in log) =>
     /\ recent_ids = {}
     /\ outcome = "returned" =>
          /\ summary.recent_count = 0
          /\ \A i \in 1..Len(csv_rows) : ~csv_rows[i].is_recent

\* C3: when the bots-filtered sub-stream fails with a permission or protocol
\* error at any point, the bot count is 0 whatever had been counted, the
\* degradation message goes to the progress callback (when there is one), the
\* recent-filtered sub-stream is the next step and the run has not failed.
C3_BotsFailureDegrades ==
  (event.site = "bots" /\ event.what \in {"ChatAdminRequiredError", "RPCError"}) =>
     /\ bot_count = 0
     /\ hasProgress => "Unable to enumerate bots" \in log
     /\ pc = "recent"
     /\ outcome = "running"

C3_Witness ==
  /\ event.site = "bots"
  /\ event.what = "ChatAdminRequiredError"
  /\ event.yielded >= 1
  /\ hasProgress
  /\ bot_count = 0
  /\ pc = "recent"

\* the chat reference resolve_chat_entity is called with, and whether its
\* invite token is set (line 98 tests the token's truth value)
RefOfRun == normalize_chat_identifier(chat_username)
TokenSet == RefOfRun # NoChat /\ RefOfRun.invite_hash \notin {None, Some("")}
CheckOf(ref) == [req |-> "CheckChatInviteRequest", arg |-> ref.invite_hash[1]]
LookupOf(target) == [req |-> "get_entity", arg |-> target]

\* C4: with an invite token set, a first invite check that fails with the
\* 'already participant' error is followed by exactly one more invite check
\* with the same token, and the caller does not see the failure.
C4_RetryAfterAlreadyParticipant ==
  (event.site = "invite1" /\ event.what = "UserAlreadyParticipantError") =>
     /\ calls = << CheckOf(RefOfRun), CheckOf(RefOfRun) >>
     /\ pc = "invite2"
     /\ outcome = "running"

\* C5: an error the client raises in resolve_chat_entity (from the invite check or
\* from the entity lookup), other than the 'already participant' error, reaches
\* the caller as that same error.
C5_ClientErrorsPropagateUnchanged ==
  ( /\ event.site \in {"invite1", "invite2", "lookup"}
    /\ event.what \in ClientErrors ) =>
     outcome = event.what

PostsOf(u) == { i \in 1..Len(history) : history[i] = u }
FirstPostOf(u) == CHOOSE i \in PostsOf(u) : \A j \in PostsOf(u) : i <= j

\* C7: for every participant U, last_post[U] is the date of the first scanned
\* message whose sender is U (and there is no entry before such a message),
\* and an entry of last_post or last_reaction is never changed by a later
\* message of the scan.
C7_FirstSeenWins ==
  /\ [](\A u \in participant_ids :
          /\ u \in DOMAIN last_post <=> PostsOf(u) # {}
          /\ u \in DOMAIN last_post => last_post[u] = DateOf(FirstPostOf(u)))
  /\ [][ pc' \in {"scan", "fetch", "rows"} =>
           /\ \A u \in DOMAIN last_post :
                u \in DOMAIN last_post' /\ last_post'[u] = last_post[u]
           /\ \A u \in DOMAIN last_reaction :
                u \in DOMAIN last_reaction' /\ last_reaction'[u] = last_reaction[u] ]_vars

\* U sent the newest message and the one after it; the newer date is recorded
C7_Witness ==
  \E u \in participant_ids :
    /\ Len(history) >= 2
    /\ history[1] = u /\ history[2] = u
    /\ DateOf(1) > DateOf(2)
    /\ last_post[u] = DateOf(1)
    /\ u \in DOMAIN last_reaction

\* every participant id has a recorded post and a recorded reaction
BothRecorded ==
  /\ DOMAIN last_post = participant_ids
  /\ DOMAIN last_reaction = participant_ids

\* C8: the scan never takes more than history_limit messages; once a message
\* has been processed and every participant id has both entries, the scan is
\* over and no further message is taken; and the scan ends without that only
\* when the message stream ends.
C8_EarlyTermination ==
  /\ [](/\ scanned <= history_limit
        /\ (pc = "scan" /\ scanned >= 1) => ~BothRecorded
        /\ (pc = "rows" /\ ~BothRecorded) => event.what = "StopAsyncIteration")
  /\ [][ (BothRecorded /\ scanned >= 1) => scanned' <= scanned ]_vars

\* limit 5, two participants, everything found with the third message
C8_Witness ==
  /\ history_limit = 5
  /\ Cardinality(participant_ids) = 2
  /\ BothRecorded
  /\ scanned = 3
  /\ pc = "rows"
  /\ event.what # "StopAsyncIteration"

C10_OneRowPerUser ==
  outcome = "returned" =>
     /\ Len(csv_rows) = Len(participants)
     /\ \A i, j \in 1..Len(csv_rows) :
          csv_rows[i].user_id = csv_rows[j].user_id => i = j

\* C11: the summary of a completed run has total_members = the length of the
\* participant list (fallback participants included), bot_count = the count
\* of the bots-filtered stream and recent_count = the size of the recent-id
\* set, whatever the activity maps hold.
C11_SummaryCounts ==
  outcome = "returned" =>
     /\ summary.total_members = Len(participants)
     /\ summary.bot_count = bot_count
     /\ summary.recent_count = Cardinality(recent_ids)
     \* the example: three participants, one bot counted, one recent id
     /\ LET example == ExportSummary(<< 1, 2, 3 >>, 1, {2}, chat_title)
        IN /\ example.total_members = 3
           /\ example.bot_count = 1
           /\ example.recent_count = 1

\* participants A (a bot) and B, the bots stream counted one, the recent
\* stream gave B, B posted and A reacted: 2 members, 1 bot, 1 recent
C11_Witness ==
  /\ outcome = "returned"
  /\ participants = << 1, 2 >>
  /\ UserOf(1).bot /\ ~UserOf(2).bot
  /\ bot_count = 1
  /\ recent_ids = {2}
  /\ DOMAIN last_post = {2}
  /\ DOMAIN last_reaction = {1}
  /\ summary.total_members = 2 /\ summary.bot_count = 1 /\ summary.recent_count = 1

\* the progress notes that tell that chat resolution, both filtered
\* sub-streams, the participant enumeration and the activity scan are over
StepsCompleted ==
  /\ entity # NoEntity
  /\ "Resolved chat title" \in log
  /\ "Bots counted" \in log \/ "Unable to enumerate bots" \in log
  /\ "Recent participants counted" \in log \/ "Unable to enumerate recent members" \in log
  /\ "Scanning message activity..." \in log
  /\ "Activity scan finished" \in log

\* C12: the output file is touched only by the step that follows resolution,
\* both sub-streams, the enumeration and the activity scan, with every row
\* built; a run that failed in one of those steps has written nothing.
C12_WriteOnlyAfterAllSteps ==
  /\ [](csv_written => (pc \in {"finally", "done"} /\ outcome \in {"returned", "OSError"}))
  /\ [][ (csv_written' /\ ~csv_written) =>
           /\ pc = "rows"
           /\ StepsCompleted
           /\ outcome' = "returned" => Len(csv_rows') = Len(participants) ]_vars

\* a run that failed in the activity scan after participants were enumerated
C12_Witness ==
  /\ pc = "done"
  /\ outcome \in ClientErrors
  /\ "Scanning message activity..." \in log
  /\ ~csv_written
  /\ csv_rows = << >>

\* C13: an RPCError (or any other client error) raised by the unfiltered
\* participant stream or by the message stream of the activity scan leaves
\* export_member_data as that error, with no summary and no file written, and
\* nothing changes that afterwards; the same error raised by the bots or the
\* recent sub-stream leaves the run going.
C13_TransientErrorsAbortOnlyMainSteps ==
  /\ []((event.site \in {"participants", "scan"} /\ event.what \in ClientErrors) =>
          /\ outcome = event.what
          /\ pc = "finally"
          /\ summary = NoSummary
          /\ ~csv_written)
  /\ []((event.site \in {"bots", "recent"} /\ event.what \in {"RPCError", "ChatAdminRequiredError"}) =>
          /\ outcome = "running"
          /\ pc \in {"recent", "participants"})
  /\ [][ (outcome \in ClientErrors) =>
           (outcome' = outcome /\ summary' = NoSummary /\ ~csv_written') ]_vars

\* the message stream of the activity scan raises an RPCError after the bots
\* sub-stream had failed and been survived
C13_Witness ==
  /\ event.site = "scan"
  /\ event.what = "RPCError"
  /\ "Unable to enumerate bots" \in log
  /\ "Scanning message activity..." \in log
  /\ outcome = "RPCError"
  /\ summary = NoSummary

\* the distinct senders of a newest-first message sequence, in order of first
\* appearance (messages without a sender skipped)
RECURSIVE FirstAppearances(_, _)
FirstAppearances(senders, acc) ==
  IF senders = << >> THEN acc
  ELSE LET u == Head(senders)
           known == { acc[i] : i \in 1..Len(acc) }
       IN FirstAppearances(Tail(senders),
                           IF u = NoneId \/ u \in known THEN acc ELSE Append(acc, u))

\* C14: the fallback scan is entered exactly when the unfiltered enumeration
\* ended with no participant in mode 'member'. During it the participant list
\* is the list of distinct senders read so far, in order of first appearance;
\* it ends with at most history_limit participants after at most
\* history_limit messages, the last message adding at most one new sender.
C14_FallbackScan ==
  /\ [](pc = "fallback" =>
          /\ mode = "member"
          /\ fb_scanned = Len(history)
          /\ fb_scanned <= history_limit
          /\ participants = FirstAppearances(history, << >>)
          /\ fb_scanned >= 1 => Len(participants) < history_limit)
  /\ [](Len(participants) > history_limit => fb_scanned = 0)
  /\ [][ /\ (pc = "participants" /\ pc' \in {"fallback", "scan"}) =>
              (pc' = "fallback" <=> (participants = << >> /\ mode = "member"))
         /\ (pc # "fallback" /\ pc' = "fallback") => pc = "participants"
         /\ (pc = "fallback" /\ pc' = "scan") =>
              /\ participant_ids' = { participants'[i] : i \in 1..Len(participants') }
              /\ \/ participants' = participants
                 \/ /\ Len(participants') = history_limit
                    /\ \E u \in Users :
                         /\ \A i \in 1..Len(participants) : participants[i] # u
                         /\ participants' = Append(participants, u) ]_vars

\* the fallback scan has read the same sender twice and then another one
C14_Witness ==
  /\ pc = "fallback"
  /\ Len(history) = 3
  /\ history[1] = history[2]
  /\ history[3] \notin {history[1], NoneId}
  /\ participants = << history[1], history[3] >>

\* two descriptors are equal by value: raw, target with its type, invite_hash
SameDescriptor(a, b) ==
  /\ a.kind = b.kind
  /\ a.raw = b.raw
  /\ a.target = b.target
  /\ a.invite_hash = b.invite_hash

\* C15: whenever a preview resolution writes the displayed chat name, the
\* suggested output path or the last resolved reference, it is the newest
\* preview resolution started: the result of a superseded one is never applied.
C15_StaleResultDiscarded == applied.id = applied.newest

\* the reference on_resolve_chat computes from the chat field
FieldRef == normalize_chat_identifier([kind |-> "str", value |-> Strip(chat_var, Whitespace)])

\* C16: at most one timer job is pending and it is the job scheduled last, so
\* the job that fires is the one scheduled last; and no preview resolution is
\* started while the reference of the chat field equals last_resolved_chat.
C16_SingleTimerSkipsUnchanged ==
  /\ [](Cardinality(after_jobs) <= 1 /\ after_jobs \subseteq {job_count})
  /\ [][fired' # fired => fired'.job = job_count]_vars
  /\ [][started' # started => ~SameDescriptor(FieldRef, last_resolved_chat)]_vars

C16_Witness ==
  /\ job_count >= 3
  /\ after_jobs = {}
  /\ fired = [job |-> job_count, did |-> "unchanged"]
  /\ SameDescriptor(FieldRef, last_resolved_chat)

\* C16 as stated: no preview resolution is started while the reference of the
\* chat field equals the reference that was resolved successfully last.
C16_SkipsLastSuccess ==
  [][started' # started => ~SameDescriptor(FieldRef, last_success)]_vars

\* C17: for every input x with normalize(x) not None, normalizing the raw of
\* the result, and normalizing the result itself, give the result again.
C17_NormalizeIdempotent ==
  nz_pc \in {"again.raw", "again.descriptor"} => SameDescriptor(nz_again, nz_ref)

\* the trimmed text of a str argument
TrimmedInput == Strip(nz_chat.value, Whitespace)

\* text is '-100' followed by digits only
IsMinus100Digits(text) ==
  /\ StartsWith(text, << "-", "1", "0", "0" >>)
  /\ \A i \in 5..Len(text) : text[i] \in Digits

\* C18: a trimmed str of '-100' and at least 5 digits gives the descriptor
\* whose target is that number as an int and whose invite_hash is None; '-100'
\* with fewer than 5 digits keeps the str as target.
C18_ChannelIdString ==
  (nz_pc = "returned" /\ nz_chat.kind = "str" /\ IsMinus100Digits(TrimmedInput)) =>
     IF Len(TrimmedInput) >= 9
       THEN SameDescriptor(nz_ref, [kind |-> "NormalizedChat", raw |-> TrimmedInput,
                                    target |-> [type |-> "int", value |-> TrimmedInput],
                                    invite_hash |-> None])
       ELSE /\ nz_ref.kind = "NormalizedChat"
            /\ nz_ref.target = [type |-> "str", value |-> TrimmedInput]

C18_Witness ==
  /\ nz_pc = "returned"
  /\ nz_chat = [kind |-> "str", value |-> << "-", "1", "0", "0", "1", "2", "3", "4", "5", "6", "7", "8", "9", "0" >>]
  /\ nz_ref.target = [type |-> "int", value |-> << "-", "1", "0", "0", "1", "2", "3", "4", "5", "6", "7", "8", "9", "0" >>]
  /\ nz_ref.invite_hash = None

\* the path segments of a link on a known domain, << >> for anything else
KnownLinkParts(text) ==
  IF /\ StartsWith(Lower(text), HttpPrefix) \/ StartsWith(Lower(text), HttpsPrefix)
     /\ Lower(urlparse(text).netloc) \in domain_aliases
    THEN LET path == Strip(urlparse(text).path, {"/"})
         IN IF path = << >> THEN << >> ELSE Split(path, "/")
    ELSE << >>

\* a segment of digits, possibly after leading '-'
IsNumericSegment(seg) ==
  LET body == LStrip(seg, {"-"})
  IN body # << >> /\ \A i \in 1..Len(body) : body[i] \in Digits

IsChannelLink(text) ==
  /\ Len(KnownLinkParts(text)) >= 2
  /\ KnownLinkParts(text)[1] = << "c" >>
  /\ IsNumericSegment(KnownLinkParts(text)[2])

\* C19: a link on a known domain with first segment 'c' and a numeric second
\* segment gives the int target '-100' + the segment without leading '-' (the
\* segment itself when it begins with '-100'), whatever segments follow, and
\* no invite_hash.
C19_ChannelLink ==
  (nz_pc = "returned" /\ nz_chat.kind = "str" /\ IsChannelLink(TrimmedInput)) =>
     LET seg == KnownLinkParts(TrimmedInput)[2]
         id == IF StartsWith(seg, << "-", "1", "0", "0" >>)
                 THEN seg
                 ELSE << "-", "1", "0", "0" >> \o LStrip(seg, {"-"})
     IN SameDescriptor(nz_ref, [kind |-> "NormalizedChat", raw |-> TrimmedInput,
                                target |-> [type |-> "int", value |-> id],
                                invite_hash |-> None])

C19_Witness ==
  /\ nz_pc = "returned"
  /\ nz_chat = [kind |-> "str", value |-> << "h", "t", "t", "p", "s", ":", "/", "/", "t", ".", "m", "e", "/", "c", "/", "1", "2", "3", "4", "5", "6", "7", "8", "9", "0", "/", "9", "9" >>]
  /\ nz_ref.target = [type |-> "int", value |-> << "-", "1", "0", "0", "1", "2", "3", "4", "5", "6", "7", "8", "9", "0" >>]
  /\ nz_ref.invite_hash = None

\* the descriptor of an invite: target is the raw text
InviteDescriptor(text, token) ==
  [kind |-> "NormalizedChat", raw |-> text,
   target |-> [type |-> "str", value |-> text], invite_hash |-> Some(token)]

IsKnownHostLink(text) ==
  /\ StartsWith(Lower(text), HttpPrefix) \/ StartsWith(Lower(text), HttpsPrefix)
  /\ Lower(urlparse(text).netloc) \in domain_aliases

\* C20: a known-domain link with first segment 'joinchat' or 'addstickers' and
\* a following segment has that segment as invite_hash; one whose first
\* segment begins with '+' has the segment without its leading '+'; a bare str
\* that begins with '+' has the str without its leading '+'; target is the raw
\* text in all three. A known-domain link with an empty path has no
\* invite_hash and the trimmed text as target.
C20_InviteShapes ==
  (nz_pc = "returned" /\ nz_chat.kind = "str" /\ TrimmedInput # << >>) =>
     LET text == TrimmedInput
         parts == KnownLinkParts(text)
     IN /\ (Len(parts) >= 2 /\ parts[1] \in InviteSegments) =>
             SameDescriptor(nz_ref, InviteDescriptor(text, parts[2]))
        /\ (parts # << >> /\ StartsWith(parts[1], << "+" >>)) =>
             SameDescriptor(nz_ref, InviteDescriptor(text, LStrip(parts[1], {"+"})))
        /\ StartsWith(text, << "+" >>) =>
             SameDescriptor(nz_ref, InviteDescriptor(text, LStrip(text, {"+"})))
        /\ (IsKnownHostLink(text) /\ parts = << >>) =>
             SameDescriptor(nz_ref, [kind |-> "NormalizedChat", raw |-> text,
                                     target |-> [type |-> "str", value |-> text],
                                     invite_hash |-> None])

C20_Witness ==
  /\ nz_pc = "returned"
  /\ nz_chat = [kind |-> "str", value |-> << "h", "t", "t", "p", "s", ":", "/", "/", "t", ".", "m", "e", "/", "j", "o", "i", "n", "c", "h", "a", "t", "/", "A", "b", "C", "d", "E", "f", "1", "2" >>]
  /\ nz_ref.invite_hash = Some(<< "A", "b", "C", "d", "E", "f", "1", "2" >>)
  /\ nz_ref.target = [type |-> "str", value |-> << "h", "t", "t", "p", "s", ":", "/", "/", "t", ".", "m", "e", "/", "j", "o", "i", "n", "c", "h", "a", "t", "/", "A", "b", "C", "d", "E", "f", "1", "2" >>]

\* C22: throughout the activity scan and in its result the keys of last_post
\* and of last_reaction are participant ids, so neither map has more entries
\* than there are participant ids, and the two sizes equal the number of
\* participant ids exactly when every participant has both signals.
C22_KeysAreParticipants ==
  /\ DOMAIN last_post \subseteq participant_ids
  /\ DOMAIN last_reaction \subseteq participant_ids
  /\ Cardinality(DOMAIN last_post) <= Cardinality(participant_ids)
  /\ Cardinality(DOMAIN last_reaction) <= Cardinality(participant_ids)
  /\ (/\ Cardinality(DOMAIN last_post) = Cardinality(participant_ids)
      /\ Cardinality(DOMAIN last_reaction) = Cardinality(participant_ids))
       <=> (DOMAIN last_post = participant_ids /\ DOMAIN last_reaction = participant_ids)

\* a sender that is no participant was scanned, and both maps hold an entry
C22_Witness ==
  /\ pc = "rows"
  /\ outcome = "running"
  /\ \E i \in 1..Len(history) : history[i] \notin participant_ids
  /\ DOMAIN last_post # {}
  /\ DOMAIN last_reaction # {}
  /\ DOMAIN last_reaction # participant_ids

\* C23: with no participant ids the scan never takes a second message and
\* records nothing; it ends without a message only when the history is empty,
\* otherwise after exactly one.
C23_EmptySetScansOneMessage ==
  (participant_ids = {}) =>
     /\ scanned <= 1
     /\ last_post = EmptyMap /\ last_reaction = EmptyMap
     /\ pc = "scan" => scanned = 0
     /\ (pc = "rows" /\ scanned = 0) => event.what = "StopAsyncIteration"

C23_Witness ==
  /\ participant_ids = {}
  /\ history_limit >= 2
  /\ pc = "rows"
  /\ scanned = 1
  /\ event.what # "StopAsyncIteration"

\* C24: when the run has ended no cloned session file is left, and a run with
\* a mode other than 'member' or 'admin' has cloned no file and created no
\* client.
C24_TempSessionRemoved ==
  /\ pc = "done" => ~tmp_session
  /\ mode \notin {"member", "admin"} => (~tmp_session /\ client = "none")

\* C25: a descriptor returned by normalize_chat_identifier with an invite_hash
\* that is not None carries a non-empty token (resolve_chat_entity tests the
\* token's truth to take the invite path).
C25_InviteTokenNonEmpty ==
  (nz_pc = "returned" /\ nz_ref.kind = "NormalizedChat" /\ nz_ref.invite_hash # None) =>
     nz_ref.invite_hash[1] # << >>

\* C26: for a str argument the target is an int only when the trimmed text is
\* '-100' followed by at least 5 digits or a known-domain link whose first
\* segment is 'c' and that has a second segment.
C26_IntTargetOnlyForChannelShapes ==
  (nz_pc = "returned" /\ nz_chat.kind = "str" /\ nz_ref.kind = "NormalizedChat"
     /\ nz_ref.target.type = "int") =>
     \/ IsMinus100Digits(TrimmedInput) /\ Len(TrimmedInput) >= 9
     \/ Len(KnownLinkParts(TrimmedInput)) >= 2 /\ KnownLinkParts(TrimmedInput)[1] = << "c" >>

\* C21: at most one export thread is alive at any time, the Start button is
\* disabled exactly while one is, and so a click starts a run only when no run
\* is under way, and can start one again after every run has ended.
C21_OneExportAtATime ==
  /\ Cardinality(exports) <= 1
  /\ exports # {} <=> start_btn = "disabled"

\* a second run was started after the first had ended
C21_Witness ==
  /\ runs = 2
  /\ \E x \in exports : x.id = 2 /\ x.at = "exporting"
  /\ Cardinality(exports) = 1

\* C28: at most one preview thread is connected through the resolve_preview
\* session at a time, and no preview thread removes resolve_preview.session
\* while another is connected through it.
C28_PreviewSessionNotShared ==
  /\ Cardinality({ w \in workers : w.at = "resolving" }) <= 1
  /\ unlinked.others = {}

\* C27: in export_task with mode 'count_bots' the returned counts satisfy
\* bots <= total on every path that returns, also when the participant stream
\* fails part-way with an admin-required or RPC error and the message fallback
\* runs; after the fallback total is the number of distinct senders seen, the
\* fallback scans at most min(limit, 5000) messages, and in mode 'export' the
\* same errors are raised and no fallback runs.
C27_BotsAtMostTotal ==
  /\ (task_pc = "returned" /\ task_mode = "count_bots") =>
       task_result.bots <= task_result.total
  /\ (task_pc = "returned" /\ task_result.fallback) =>
       task_result.total = Cardinality(task_seen)
  /\ msgs <= Min(task_limit, FallbackCap)
  /\ task_mode = "export" => (task_pc # "fallback" /\ msgs = 0 /\ fallback_used # << TRUE >>)

====
